---------------------------- MODULE Spec2Model ----------------------------
(***************************************************************************)
(* A model of the chart-app task dashboard: the calendar helpers of        *)
(* utils/dateUtils.ts, the period resolver, visibility filter and layout   *)
(* pass of useGanttCalculations, the quarter navigation of                 *)
(* QuarterNavigation / useQuarterNavigation, and the task store useTasks.  *)
(*                                                                         *)
(* A Date is modelled by the number of its local calendar day, day 0 being *)
(* 1 January of EpochYear.  Every Date the program builds is a local       *)
(* midnight (new Date(y, m, d), parseEstonianDate), so a Date is fully     *)
(* described by its day.  getTime() is modelled in hours by GetTime, which *)
(* depends on whether the local time zone observes daylight saving time.   *)
(* A string the program inspects (a task name) is a sequence of characters. *)
(***************************************************************************)
EXTENDS Integers, Sequences, FiniteSets, TLC

VARIABLES
    tasks,          \* useTasks: the task list (useState<Task[]>)
    lastResult,     \* the last task-store call: its input and the value it resolved to
    isLoading,      \* useTasks: useState isLoading
    error,          \* useTasks: useState error, or NoError
    errors,         \* useTaskValidation: useState errors
    renderedTasks,  \* the tasks value of the last render, which the callbacks close over
    renderedErrors, \* the errors value of the last render, which getFormErrors closes over
    pendingOps,     \* task-store calls made since the last render
    hookVariant,    \* which useTasks implementation is mounted
    issuedIds,      \* every identifier a created task was given so far
    lastCall,       \* the last direct call of a utility function and its outcome
    year,           \* App: useState year
    quarter,        \* App: useState quarter
    viewMode,       \* GanttChart: useState viewMode
    bounds,         \* useQuarterNavigation option bounds, or NoBounds
    navCalls,       \* callback invocations made by the last navigation handler
    lastNav,        \* the last navigation handler that ran ("none" before any)
    today,          \* the day the system clock shows (new Date())
    panelMode,      \* GanttChart: useState panelMode
    selectedTask,   \* GanttChart: useState selectedTask, or NoTask
    awaiting,       \* GanttChart: the async handlers stopped at their await, with the results they will get
    dstZone,        \* TRUE iff the local time zone observes EU daylight saving time
    timelineData,   \* useGanttCalculations: resolved period
    quarterTasks,   \* useGanttCalculations: tasks visible in the period
    taskBars,       \* useGanttCalculations: the bars of the last layout pass
    maxRow,         \* useGanttCalculations: largest row index, or -1
    chartHeight,    \* useGanttCalculations: chart height in px
    policy          \* which layout variant produced taskBars ("none" before any pass)

vars == <<tasks, lastResult, isLoading, error, errors, renderedTasks, renderedErrors,
          pendingOps, hookVariant, issuedIds, lastCall, year, quarter, viewMode, bounds, navCalls, lastNav, today,
          panelMode, selectedTask, awaiting,
          dstZone, timelineData, quarterTasks, taskBars, maxRow, chartHeight, policy>>

navVars    == <<year, quarter, viewMode, bounds, navCalls, lastNav, today>>
panelVars  == <<panelMode, selectedTask, awaiting>>
layoutVars == <<timelineData, quarterTasks, taskBars, maxRow, chartHeight, policy>>
storeVars  == <<tasks, lastResult, isLoading, error, errors, renderedTasks, renderedErrors,
                pendingOps, hookVariant, issuedIds>>

-----------------------------------------------------------------------------
(* Generic helpers *)

Max(a, b) == IF a >= b THEN a ELSE b

Min(a, b) == IF a <= b THEN a ELSE b

SetMin(S) == CHOOSE x \in S : \A y \in S : x <= y

SetMax(S) == CHOOSE x \in S : \A y \in S : x >= y

\* Math.ceil(n / d) for an integer n and a positive integer d
CeilDiv(n, d) == -((-n) \div d)

-----------------------------------------------------------------------------
(* The calendar: JavaScript Date restricted to local midnights *)

EpochYear == 2024

IsLeapYear(y) == (y % 4 = 0 /\ y % 100 # 0) \/ y % 400 = 0

\* month is 0-based as in JavaScript
DaysInMonth(y, month) ==
    CASE month = 1 -> IF IsLeapYear(y) THEN 29 ELSE 28
      [] month \in {3, 5, 8, 10} -> 30
      [] OTHER -> 31

\* number of leap years before year y
LeapYearsBefore(y) == ((y - 1) \div 4) - ((y - 1) \div 100) + ((y - 1) \div 400)

\* day number of 1 January of year y
DaysBeforeYear(y) ==
    365 * (y - EpochYear) + LeapYearsBefore(y) - LeapYearsBefore(EpochYear)

\* days of a common year before the first of each month
CumulativeDays == <<0, 31, 59, 90, 120, 151, 181, 212, 243, 273, 304, 334>>

DaysBeforeMonth(y, month) ==
    CumulativeDays[month + 1] + (IF month > 1 /\ IsLeapYear(y) THEN 1 ELSE 0)

\* new Date(y, month, day): month and day overflow into the neighbouring
\* months and years, day 0 is the last day of the previous month, and a
\* year from 0 to 99 stands for 1900 + year
NewDate(y, month, day) ==
    LET yy == (IF y \in 0..99 THEN 1900 + y ELSE y) + (month \div 12)
        mm == month % 12
    IN  DaysBeforeYear(yy) + DaysBeforeMonth(yy, mm) + day - 1

GetFullYear(d) ==
    LET y0 == EpochYear + (d \div 365)
    IN  IF DaysBeforeYear(y0) > d THEN y0 - 1
        ELSE IF DaysBeforeYear(y0 + 1) <= d THEN y0 + 1
        ELSE y0

GetMonth(d) ==
    LET y == GetFullYear(d)
        dayOfYear == d - DaysBeforeYear(y)
    IN  Cardinality({m \in 1..11 : DaysBeforeMonth(y, m) <= dayOfYear})

GetDate(d) == d - NewDate(GetFullYear(d), GetMonth(d), 1) + 1

\* Date.getDay(): 0 = Sunday; 1 January 2024 is a Monday
GetDay(d) == (d + 1) % 7

\* last Sunday of a month, the day EU daylight saving time starts or ends
LastSunday(y, month) ==
    LET last == NewDate(y, month + 1, 0)
    IN  last - GetDay(last)

\* navigation is followed MaxYearSpan years to either side of EpochYear; the
\* calendar tables cover one year more
MaxYearSpan == 2

CalendarDays ==
    NewDate(EpochYear - MaxYearSpan - 1, 0, 1)..NewDate(EpochYear + MaxYearSpan + 1, 11, 31)

\* whether the local midnight of a day is in daylight saving time, in a zone
\* that observes it: the clock changes at 03:00 of the last Sunday of March
\* and at 04:00 of the last Sunday of October
SummerTime ==
    [d \in CalendarDays |->
        \E y \in {GetFullYear(d)} : LastSunday(y, 2) < d /\ d <= LastSunday(y, 9)]

InDst(d) == dstZone /\ SummerTime[d]

\* Date.getTime() of the local midnight of day d, in hours
GetTime(d) == d * 24 - (IF InDst(d) THEN 1 ELSE 0)

HoursPerDay == 24

-----------------------------------------------------------------------------
(* utils/dateUtils.ts *)

getQuarterInfo(d) ==
    [year |-> GetFullYear(d), quarter |-> (GetMonth(d) \div 3) + 1]

getQuarterStart(y, q) ==
    LET month == (q - 1) * 3
    IN  NewDate(y, month, 1)

getQuarterEnd_dayOne(y, q) ==
    LET month == (q - 1) * 3 + 2
    IN  NewDate(y, month + 1, 1)

getQuarterEnd(y, q) ==
    LET month == (q - 1) * 3 + 2
    IN  NewDate(y, month + 1, 0)

getYearStart(y) == NewDate(y, 0, 1)

getYearEnd(y) == NewDate(y, 11, 31)

isTaskInQuarter_strict(task, y, q) ==
    LET quarterStart == getQuarterStart(y, q)
        quarterEnd   == getQuarterEnd(y, q)
    IN  GetTime(task.startDate) < GetTime(quarterEnd)
            /\ GetTime(task.endDate) > GetTime(quarterStart)

isTaskInQuarter(task, y, q) ==
    LET quarterStart == getQuarterStart(y, q)
        quarterEnd   == getQuarterEnd(y, q)
    IN  GetTime(task.startDate) <= GetTime(quarterEnd)
            /\ GetTime(task.endDate) >= GetTime(quarterStart)

isTaskInYear(task, y) ==
    LET yearStart == getYearStart(y)
        yearEnd   == getYearEnd(y)
    IN  GetTime(task.startDate) <= GetTime(yearEnd)
            /\ GetTime(task.endDate) >= GetTime(yearStart)


-----------------------------------------------------------------------------
(* The period resolver: useGanttCalculations timelineData *)

TimelineData(y, q, mode) ==
    IF mode = "year"
    THEN [year |-> y, mode |-> "year",
          startDate |-> getYearStart(y), endDate |-> getYearEnd(y)]
    ELSE [year |-> y, quarter |-> q, mode |-> "quarter",
          startDate |-> getQuarterStart(y, q), endDate |-> getQuarterEnd(y, q)]

(* The visibility filter: useGanttCalculations quarterTasks *)

QuarterTasks(ts, y, q, mode) ==
    IF mode = "year"
    THEN SelectSeq(ts, LAMBDA task : isTaskInYear(task, y))
    ELSE SelectSeq(ts, LAMBDA task : isTaskInQuarter(task, y, q))

-----------------------------------------------------------------------------
(* The layout pass: useGanttCalculations taskBars, maxRow, chartHeight      *)
(*                                                                         *)
(* left and width are percentages with a fractional part.  A bar holds     *)
(* them as the numerators of fractions over Denominator(td): left is       *)
(* bar.left / Denominator(td) percent, and likewise width.                 *)

DefaultMinimumTaskWidth == 1
DefaultRowHeight == 32
DefaultHeaderHeight == 60
MinChartHeight == 200
BottomPadding == 40
DEFAULT_TASK_HEIGHT == 38
PACKED_TASK_HEIGHT == 28
DEFAULT_TASK_GAP == 4
DEFAULT_HEADER_HEIGHT == 60

TotalDays(td) ==
    CeilDiv(GetTime(td.endDate) - GetTime(td.startDate), HoursPerDay) + 1

Denominator(td) == HoursPerDay * TotalDays(td)

DisplayStart(task, td) ==
    IF GetTime(task.startDate) < GetTime(td.startDate) THEN td.startDate ELSE task.startDate

DisplayEnd(task, td) ==
    IF GetTime(task.endDate) > GetTime(td.endDate) THEN td.endDate ELSE task.endDate

\* startOffset in hours (the code's value is this / 24, not rounded)
StartOffset(task, td) ==
    Max(0, GetTime(DisplayStart(task, td)) - GetTime(td.startDate))

Duration(task, td) ==
    CeilDiv(GetTime(DisplayEnd(task, td)) - GetTime(DisplayStart(task, td)), HoursPerDay) + 1

BarLeft(task, td) == StartOffset(task, td) * 100

BarWidth_noFloor(task, td, minimumTaskWidth) ==
    Duration(task, td) * 100 * HoursPerDay

BarWidth(task, td, minimumTaskWidth) ==
    Max(Duration(task, td) * 100 * HoursPerDay, minimumTaskWidth * Denominator(td))

ContinuesLeft_orEqual(task, td) == GetTime(task.startDate) <= GetTime(td.startDate)

ContinuesLeft(task, td) == GetTime(task.startDate) < GetTime(td.startDate)

ContinuesRight(task, td) == GetTime(task.endDate) > GetTime(td.endDate)

IsPartial(task, td) ==
    GetTime(task.startDate) < GetTime(td.startDate)
        \/ GetTime(task.endDate) > GetTime(td.endDate)

\* the object literal returned by tasks.map(...)
MakeBar(task, td, minimumTaskWidth, row) ==
    [id |-> task.id, name |-> task.name,
     startDate |-> task.startDate, endDate |-> task.endDate,
     left |-> BarLeft(task, td),
     width |-> BarWidth(task, td, minimumTaskWidth),
     row |-> row,
     isPartial |-> IsPartial(task, td),
     continuesLeft |-> ContinuesLeft(task, td),
     continuesRight |-> ContinuesRight(task, td)]

\* the test inside rows[i].some(...)
HasOverlap_halfOpen(task, existing) ==
    GetTime(task.startDate) < GetTime(existing.endDate)
        /\ GetTime(task.endDate) > GetTime(existing.startDate)

HasOverlap(task, existing) ==
    GetTime(task.startDate) <= GetTime(existing.endDate)
        /\ GetTime(task.endDate) >= GetTime(existing.startDate)

\* [...bars].sort((a, b) => a.startDate.getTime() - b.startDate.getTime()):
\* the indexes of bars in ascending start order; Array.prototype.sort is stable
SortedOrder(bars) ==
    LET n == Len(bars)
        Before(i, j) ==
            \/ GetTime(bars[i].startDate) < GetTime(bars[j].startDate)
            \/ (GetTime(bars[i].startDate) = GetTime(bars[j].startDate) /\ i < j)
        Pos(i) == 1 + Cardinality({j \in 1..n : Before(j, i)})
    IN  [k \in 1..n |-> CHOOSE i \in 1..n : Pos(i) = k]

\* the for loop over rows: the first row (1-based here) without an overlap,
\* or Len(rows) + 1 when every row has one; rows holds, per row, the indexes
\* of the bars placed in it
AssignedRow_highestFree(bars, i, rows) ==
    LET free == {r \in 1..Len(rows) :
                    ~ \E k \in 1..Len(rows[r]) : HasOverlap(bars[i], bars[rows[r][k]])}
    IN  IF free = {} THEN Len(rows) + 1 ELSE SetMax(free)

AssignedRow(bars, i, rows) ==
    LET free == {r \in 1..Len(rows) :
                    ~ \E k \in 1..Len(rows[r]) : HasOverlap(bars[i], bars[rows[r][k]])}
    IN  IF free = {} THEN Len(rows) + 1 ELSE SetMin(free)

\* one iteration of sorted.forEach(...) for the bar of index i: the row is
\* found, a new row is pushed when there is none, task.row = assigned writes
\* through to the bar object shared with bars, and the bar joins its row
PlaceTask_ownRow(st, i) ==
    LET assigned == Len(st.rows) + 1
        grown == Append(st.rows, <<>>)
    IN  [bars |-> [st.bars EXCEPT ![i].row = assigned - 1],
         rows |-> [grown EXCEPT ![assigned] = Append(@, i)]]

PlaceTask(st, i) ==
    LET assigned == AssignedRow(st.bars, i, st.rows)
        grown == IF assigned > Len(st.rows) THEN Append(st.rows, <<>>) ELSE st.rows
    IN  [bars |-> [st.bars EXCEPT ![i].row = assigned - 1],
         rows |-> [grown EXCEPT ![assigned] = Append(@, i)]]

\* sorted.forEach(...), from the k-th bar in sorted order on; the state after
\* one iteration is a value (next) the following iterations start from
RECURSIVE PlaceTasks(_, _, _)
PlaceTasks(st, order, k) ==
    IF k > Len(order) THEN st
    ELSE CHOOSE placed \in
            { PlaceTasks(next, order, k + 1) : next \in {PlaceTask(st, order[k])} } : TRUE

\* the packed-row layout: the bars are returned in input order
PackedTaskBars(ts, td, minimumTaskWidth) ==
    IF Len(ts) = 0 THEN <<>>
    ELSE CHOOSE placed \in
            UNION { { PlaceTasks([bars |-> bars, rows |-> <<>>], sorted, 1).bars :
                        sorted \in {SortedOrder(bars)} } :
                    bars \in {[i \in 1..Len(ts) |-> MakeBar(ts[i], td, minimumTaskWidth, 0)]} }
            : TRUE

\* the sequential-row layout: row: index
SequentialTaskBars_packed(ts, td) == PackedTaskBars(ts, td, 1)

SequentialTaskBars(ts, td) ==
    IF Len(ts) = 0 THEN <<>>
    ELSE [i \in 1..Len(ts) |-> MakeBar(ts[i], td, 1, i - 1)]

MaxRow_byCount(bars) == Len(bars) - 1

MaxRow(bars) ==
    IF Len(bars) > 0 THEN SetMax({bars[i].row : i \in 1..Len(bars)}) ELSE -1

ChartHeight(mr, rowHeight, headerHeight) ==
    Max(MinChartHeight, (mr + 1) * rowHeight + headerHeight + BottomPadding)


\* rowHeight and headerHeight each variant of the hook uses by default
RowHeightOf(p) ==
    CASE p = "sequential" -> DEFAULT_TASK_HEIGHT + DEFAULT_TASK_GAP
      [] p = "packed"     -> PACKED_TASK_HEIGHT + DEFAULT_TASK_GAP
      [] OTHER            -> DefaultRowHeight

HeaderHeightOf(p) ==
    IF p \in {"sequential", "packed"} THEN DEFAULT_HEADER_HEIGHT ELSE DefaultHeaderHeight

-----------------------------------------------------------------------------
(* Values that stand for "absent" *)

NoBounds == [present |-> FALSE]

NoResult == [settled |-> FALSE]

NoTask == [present |-> FALSE]

\* an optional value handed to the task store is a sequence: empty when the
\* value is missing (null, undefined), else holding the value
NoError == <<>>

NoDate == <<>>

Some(value) == <<value>>

\* a missing colour and the empty string are both falsy
NoColor == ""

\* no utility function has been called directly
NoCall == [made |-> FALSE]

\* the hook right after a render with nothing pending: the callbacks close
\* over the current tasks and errors
FreshRender ==
    /\ renderedTasks = tasks
    /\ renderedErrors = errors
    /\ pendingOps = 0
    /\ issuedIds = {}
    /\ lastCall = NoCall
    /\ awaiting = <<>>

-----------------------------------------------------------------------------
(* Layout specification: the inputs of a render are drawn in the initial   *)
(* state, the actions are the layout passes of the three variants of       *)
(* useGanttCalculations.                                                   *)

MaxLayoutTasks == 3

\* date ranges the tasks of the layout specification are drawn from:
\* days around the borders of Q1 and Q4 of EpochYear, and its last day
TaskRanges ==
    { <<NewDate(EpochYear - 1, 11, 31), NewDate(EpochYear - 1, 11, 31)>>,
      <<NewDate(EpochYear, 11, 31),     NewDate(EpochYear, 11, 31)>>,
      <<NewDate(EpochYear - 1, 11, 31), NewDate(EpochYear, 0, 1)>>,
      <<NewDate(EpochYear, 0, 1),       NewDate(EpochYear, 2, 31)>>,
      <<NewDate(EpochYear, 2, 31),      NewDate(EpochYear, 3, 1)>>,
      <<NewDate(EpochYear - 1, 11, 31), NewDate(EpochYear, 3, 1)>>,
      <<NewDate(EpochYear, 3, 2),       NewDate(EpochYear, 9, 28)>> }

LayoutTask(i, range) ==
    [id |-> i, name |-> <<"T">>, startDate |-> range[1], endDate |-> range[2]]

LayoutTaskLists ==
    UNION { { [i \in 1..n |-> LayoutTask(i, f[i])] : f \in [1..n -> TaskRanges] }
            : n \in 0..MaxLayoutTasks }

InitLayout ==
    /\ dstZone \in BOOLEAN
    /\ tasks \in LayoutTaskLists
    /\ year = EpochYear
    /\ quarter \in 1..4
    /\ viewMode \in {"quarter", "year"}
    /\ viewMode = "year" => quarter = 1
    /\ timelineData = TimelineData(year, quarter, viewMode)
    /\ quarterTasks = <<>>
    /\ taskBars = <<>>
    /\ maxRow = -1
    /\ chartHeight = MinChartHeight
    /\ policy = "none"
    /\ bounds = NoBounds
    /\ navCalls = <<>>
    /\ lastNav = "none"
    /\ today = 0
    /\ panelMode = "chart"
    /\ selectedTask = NoTask
    /\ lastResult = NoResult
    /\ isLoading = FALSE
    /\ error = NoError
    /\ errors = <<>>
    /\ hookVariant = "useTasks"
    /\ FreshRender

\* useGanttCalculations(tasks, timelineData, options) with default options:
\* lays out the tasks it is given
LayoutDirect ==
    /\ taskBars' = PackedTaskBars(tasks, timelineData, DefaultMinimumTaskWidth)
    /\ maxRow' = MaxRow(taskBars')
    /\ chartHeight' = ChartHeight(maxRow', RowHeightOf("direct"), HeaderHeightOf("direct"))
    /\ policy' = "direct"
    /\ quarterTasks' = <<>>
    /\ UNCHANGED <<timelineData, storeVars, navVars, panelVars, dstZone, lastCall>>

\* useGanttCalculations({tasks, currentYear, currentQuarter, viewMode}),
\* packed-row variant: resolves the period, filters, lays out
LayoutPacked_inPlace ==
    /\ timelineData' = TimelineData(year, quarter, viewMode)
    /\ quarterTasks' = QuarterTasks(tasks, year, quarter, viewMode)
    /\ taskBars' = PackedTaskBars(quarterTasks', timelineData', 1)
    /\ maxRow' = MaxRow(taskBars')
    /\ chartHeight' = ChartHeight(maxRow', RowHeightOf("packed"), HeaderHeightOf("packed"))
    /\ policy' = "packed"
    /\ tasks' = [k \in 1..Len(tasks) |-> tasks[SortedOrder(tasks)[k]]]
    /\ UNCHANGED <<lastResult, isLoading, error, errors, renderedTasks, renderedErrors,
                   pendingOps, hookVariant, issuedIds, navVars, panelVars, dstZone, lastCall>>

LayoutPacked ==
    /\ timelineData' = TimelineData(year, quarter, viewMode)
    /\ quarterTasks' = QuarterTasks(tasks, year, quarter, viewMode)
    /\ taskBars' = PackedTaskBars(quarterTasks', timelineData', 1)
    /\ maxRow' = MaxRow(taskBars')
    /\ chartHeight' = ChartHeight(maxRow', RowHeightOf("packed"), HeaderHeightOf("packed"))
    /\ policy' = "packed"
    /\ UNCHANGED <<storeVars, navVars, panelVars, dstZone, lastCall>>

\* the same hook, sequential-row variant
LayoutSequential ==
    /\ timelineData' = TimelineData(year, quarter, viewMode)
    /\ quarterTasks' = QuarterTasks(tasks, year, quarter, viewMode)
    /\ taskBars' = SequentialTaskBars(quarterTasks', timelineData')
    /\ maxRow' = MaxRow(taskBars')
    /\ chartHeight' = ChartHeight(maxRow', RowHeightOf("sequential"), HeaderHeightOf("sequential"))
    /\ policy' = "sequential"
    /\ UNCHANGED <<storeVars, navVars, panelVars, dstZone, lastCall>>

NextLayout == LayoutDirect \/ LayoutPacked \/ LayoutSequential

SpecLayout == InitLayout /\ [][NextLayout]_vars

-----------------------------------------------------------------------------
(* Properties of the layout specification *)

\* the bars of the last layout pass, as a set of indexes
BarIndexes == 1..Len(taskBars)

\* C1: after a layout pass no two bars that share a row have overlapping
\* date ranges under the closed-interval test
\* (a.startDate <= b.endDate AND a.endDate >= b.startDate)
C1_NoOverlapInRow ==
    \A i, j \in BarIndexes :
        (i # j /\ taskBars[i].row = taskBars[j].row)
            => ~ (taskBars[i].startDate <= taskBars[j].endDate
                    /\ taskBars[i].endDate >= taskBars[j].startDate)

\* a packed layout of three bars where two touching ranges were separated
\* and a later bar reused a row
C1_Witness ==
    /\ policy = "packed"
    /\ Len(taskBars) = 3
    /\ \E i, j \in BarIndexes :
          i # j /\ taskBars[i].endDate = taskBars[j].startDate
                /\ taskBars[i].row # taskBars[j].row
    /\ \E i, j \in BarIndexes : i # j /\ taskBars[i].row = taskBars[j].row

\* C2: the visibility filter returns exactly the tasks whose range overlaps
\* the period inclusively (task.startDate <= period.endDate AND
\* task.endDate >= period.startDate), in input order, in quarter mode and in
\* year mode
C2_FilterExact ==
    policy \in {"packed", "sequential"} =>
        quarterTasks =
            SelectSeq(tasks, LAMBDA task :
                task.startDate <= timelineData.endDate
                    /\ task.endDate >= timelineData.startDate)

\* a task starting on the period's last day and one ending on its first day
\* are kept, a task ending the day before the period starts is dropped
C2_Witness ==
    /\ policy \in {"packed", "sequential"}
    /\ Len(tasks) = 3
    /\ Len(quarterTasks) = 2
    /\ \E i \in 1..Len(quarterTasks) :
          quarterTasks[i].startDate = timelineData.endDate
    /\ \E i \in 1..Len(quarterTasks) :
          quarterTasks[i].endDate = timelineData.startDate
    /\ \E i \in 1..Len(tasks) : tasks[i].endDate = timelineData.startDate - 1

\* the bar's clamped duration in days, from its own dates and the period:
\* Math.ceil((displayEnd - displayStart) / day) + 1
ClampedDays(bar) ==
    LET displayStart == Max(bar.startDate, timelineData.startDate)
        displayEnd   == Min(bar.endDate, timelineData.endDate)
    IN  CeilDiv(GetTime(displayEnd) - GetTime(displayStart), 24) + 1

\* the period's length in days: Math.ceil((endDate - startDate) / day) + 1
PeriodDays ==
    CeilDiv(GetTime(timelineData.endDate) - GetTime(timelineData.startDate), 24) + 1

C8_Flags ==
    \A i \in BarIndexes :
        /\ taskBars[i].continuesLeft <=> (taskBars[i].startDate < timelineData.startDate)
        /\ taskBars[i].continuesRight <=> (taskBars[i].endDate > timelineData.endDate)
        /\ taskBars[i].isPartial <=>
              (taskBars[i].continuesLeft \/ taskBars[i].continuesRight)

\* three bars showing the flags vary independently: left only, right only,
\* and both
C8_Witness ==
    /\ \E i \in BarIndexes :
          taskBars[i].continuesLeft /\ ~ taskBars[i].continuesRight /\ taskBars[i].isPartial
    /\ \E i \in BarIndexes :
          ~ taskBars[i].continuesLeft /\ taskBars[i].continuesRight /\ taskBars[i].isPartial
    /\ \E i \in BarIndexes :
          taskBars[i].continuesLeft /\ taskBars[i].continuesRight

\* the list a layout pass of the given variant lays out
LaidOutTasks == IF policy = "direct" THEN tasks ELSE quarterTasks

\* C9: maxRow is the largest row index among the bars, or -1 when there are
\* none; chartHeight is max(200, (maxRow+1)*rowHeight + headerHeight + 40);
\* an empty task list yields no bars, maxRow = -1 and chartHeight = 200
C9_Metrics ==
    policy # "none" =>
        /\ IF BarIndexes = {} THEN maxRow = -1
           ELSE /\ \E i \in BarIndexes : taskBars[i].row = maxRow
                /\ \A i \in BarIndexes : taskBars[i].row <= maxRow
        /\ chartHeight =
              Max(200, (maxRow + 1) * RowHeightOf(policy) + HeaderHeightOf(policy) + 40)
        /\ Len(LaidOutTasks) = 0 =>
              (taskBars = <<>> /\ maxRow = -1 /\ chartHeight = 200)

\* three bars in three rows, a layout taller than the minimum height
C9_Witness ==
    /\ policy = "sequential"
    /\ maxRow = 2
    /\ chartHeight > 200

-----------------------------------------------------------------------------
(* The layout hooks called outside their preconditions: currentQuarter is  *)
(* a number and a task list is whatever the caller holds (the initialTasks *)
(* option of useTasks stores tasks without validating them).               *)

MaxPrecondTasks == 2

\* the quarter numbers passed as currentQuarter: the four quarters and one
\* number to either side of them
QuarterInputs == 0..5

\* a task that ends when it starts, a task that ends after it starts, and
\* two tasks whose end precedes their start
PrecondRanges ==
    { <<NewDate(EpochYear, 0, 1),  NewDate(EpochYear, 0, 1)>>,
      <<NewDate(EpochYear, 0, 1),  NewDate(EpochYear, 2, 31)>>,
      <<NewDate(EpochYear, 2, 31), NewDate(EpochYear, 0, 1)>>,
      <<NewDate(EpochYear, 3, 1),  NewDate(EpochYear, 2, 31)>> }

PrecondTaskLists ==
    UNION { { [i \in 1..n |-> LayoutTask(i, f[i])] : f \in [1..n -> PrecondRanges] }
            : n \in 0..MaxPrecondTasks }

InitPrecond ==
    /\ dstZone \in BOOLEAN
    /\ tasks \in PrecondTaskLists
    /\ year = EpochYear
    /\ quarter \in QuarterInputs
    /\ viewMode \in {"quarter", "year"}
    /\ viewMode = "year" => quarter = 1
    /\ timelineData = TimelineData(year, quarter, viewMode)
    /\ quarterTasks = <<>>
    /\ taskBars = <<>>
    /\ maxRow = -1
    /\ chartHeight = MinChartHeight
    /\ policy = "none"
    /\ bounds = NoBounds
    /\ navCalls = <<>>
    /\ lastNav = "none"
    /\ today = 0
    /\ panelMode = "chart"
    /\ selectedTask = NoTask
    /\ lastResult = NoResult
    /\ isLoading = FALSE
    /\ error = NoError
    /\ errors = <<>>
    /\ hookVariant = "useTasks"
    /\ FreshRender

SpecPrecond == InitPrecond /\ [][NextLayout]_vars

\* C18: no layout pass completes for a quarter number outside 1..4 in
\* quarter mode, and none returns a bar for a task whose end precedes its
\* start: such a call throws, and so returns no period and no bar
C18_FailsLoudly ==
    policy # "none" =>
        /\ (viewMode = "quarter" /\ policy # "direct") => quarter \in 1..4
        /\ \A b \in 1..Len(taskBars) : taskBars[b].endDate >= taskBars[b].startDate

\* the two halves of C18 taken one at a time
C18_QuarterChecked ==
    (policy \in {"packed", "sequential"} /\ viewMode = "quarter") => quarter \in 1..4

C18_DatesChecked ==
    \A b \in 1..Len(taskBars) : taskBars[b].endDate >= taskBars[b].startDate

\* bar j is processed before bar i: it starts earlier, or on the same day
\* and stands earlier in the list
ProcessedBefore(j, i) ==
    \/ taskBars[j].startDate < taskBars[i].startDate
    \/ (taskBars[j].startDate = taskBars[i].startDate /\ j < i)

\* the date ranges of two bars, both ends included, have a day in common
Intersect(i, j) ==
    /\ taskBars[i].startDate <= taskBars[j].endDate
    /\ taskBars[i].endDate >= taskBars[j].startDate

\* C22: in the packed-row layout every bar in a row r > 0 overlaps, in each
\* row below r, a bar processed before it (earlier start, or equal start and
\* earlier in the input), no bar overlaps a bar processed before it in its
\* own row, and the rows in use are exactly 0..maxRow
C22_LowestFreeRow ==
    policy \in {"direct", "packed"} =>
        /\ \A i \in BarIndexes :
              /\ \A r \in 0..(taskBars[i].row - 1) :
                    \E j \in BarIndexes :
                        /\ taskBars[j].row = r
                        /\ ProcessedBefore(j, i)
                        /\ Intersect(i, j)
              /\ \A j \in BarIndexes :
                    (taskBars[j].row = taskBars[i].row /\ ProcessedBefore(j, i))
                        => ~ Intersect(i, j)
        /\ {taskBars[i].row : i \in BarIndexes} = 0..maxRow

\* three bars given out of start order: two start on the same day and take
\* rows 0 and 1 in input order, and the one that starts last overlaps
\* neither and returns to row 0
C22_Witness ==
    /\ policy \in {"direct", "packed"}
    /\ Len(taskBars) = 3
    /\ maxRow = 1
    /\ \E i, j, k \in BarIndexes :
          /\ i < j /\ k < i
          /\ taskBars[i].startDate = taskBars[j].startDate
          /\ taskBars[i].row = 0 /\ taskBars[j].row = 1
          /\ taskBars[k].startDate > taskBars[j].endDate
          /\ taskBars[k].startDate > taskBars[i].endDate
          /\ taskBars[k].row = 0

\* C23: in the sequential-row layout the i-th task of the filtered list has
\* the i-th bar and row i - 1 (counting from 1), overlapping or not, so the
\* bars are in filtered-list order, which is the order of the task list, no
\* two bars share a row, and maxRow is the number of visible tasks minus one
C23_SequentialRows ==
    policy = "sequential" =>
        /\ Len(taskBars) = Len(quarterTasks)
        /\ \A i \in BarIndexes :
              /\ taskBars[i].id = quarterTasks[i].id
              /\ taskBars[i].row = i - 1
        /\ \A i, j \in BarIndexes :
              /\ i # j => taskBars[i].row # taskBars[j].row
              /\ i < j => \E a, b \in 1..Len(tasks) :
                              a < b /\ tasks[a].id = taskBars[i].id /\ tasks[b].id = taskBars[j].id
        /\ maxRow = Len(quarterTasks) - 1

\* the first of three tasks is outside the period; the other two have no
\* day in common and yet take rows 0 and 1, counted in the filtered list
C23_Witness ==
    /\ policy = "sequential"
    /\ Len(tasks) = 3
    /\ Len(taskBars) = 2
    /\ taskBars[1].id = tasks[2].id
    /\ taskBars[2].id = tasks[3].id
    /\ ~ Intersect(1, 2)
    /\ taskBars[1].row = 0
    /\ taskBars[2].row = 1
    /\ maxRow = 1

\* whole days from the period's first day to the bar's clamped start
OffsetDays(bar) == Max(bar.startDate, timelineData.startDate) - timelineData.startDate

\* the inclusive day count of the period
InclusiveDays == timelineData.endDate - timelineData.startDate + 1

\* the bars of visible tasks: the hook that is handed its task list lays
\* out whatever it is given, the others lay out the filtered list
VisibleBars ==
    { i \in BarIndexes : /\ taskBars[i].startDate <= timelineData.endDate
                         /\ taskBars[i].endDate >= timelineData.startDate }

\* left is 0 exactly when the task starts on or before the period's first
\* day, and 0 <= left < 100
LeftInRange(bar) ==
    /\ bar.left = 0 <=> bar.startDate <= timelineData.startDate
    /\ 0 <= bar.left
    /\ bar.left < 100 * Denominator(timelineData)

\* left = 100 * OffsetDays / InclusiveDays; a bar holds left as a numerator
\* over Denominator(timelineData), so the fractions are cross-multiplied
LeftIsDayShare(bar) ==
    bar.left * InclusiveDays = 100 * OffsetDays(bar) * Denominator(timelineData)

\* C24: for every visible task left is 100 * (whole days from the period's
\* first day to the clamped start) / (inclusive day count of the period),
\* left is 0 exactly when the task starts on or before the period's first
\* day, and 0 <= left < 100
C24_LeftOffset ==
    policy # "none" =>
        \A i \in VisibleBars : LeftIsDayShare(taskBars[i]) /\ LeftInRange(taskBars[i])

\* C24 for the bars and periods with no clock change between the period's
\* first day and either the clamped start or the period's last day
C24_LeftOffset_noClockChange ==
    policy # "none" =>
        \A i \in VisibleBars :
            (/\ InDst(timelineData.startDate) = InDst(timelineData.endDate)
             /\ InDst(timelineData.startDate) =
                   InDst(Max(taskBars[i].startDate, timelineData.startDate)))
            => (LeftIsDayShare(taskBars[i]) /\ LeftInRange(taskBars[i]))

\* the range part of C24 alone
C24_LeftRange ==
    policy # "none" => \A i \in VisibleBars : LeftInRange(taskBars[i])

\* the bars whose date range, both ends included, contains a day
BarsOn(d) == { i \in BarIndexes : taskBars[i].startDate <= d /\ d <= taskBars[i].endDate }

\* the largest number of bars whose ranges contain one common day; a common
\* day of several ranges is also the latest of their start days
Depth ==
    IF BarIndexes = {} THEN 0
    ELSE SetMax({ Cardinality(BarsOn(taskBars[i].startDate)) : i \in BarIndexes })

\* C26: the packed-row layout uses as few rows as any layout without
\* overlaps in a row can: the number of rows, maxRow + 1, equals the
\* largest number of laid-out tasks whose date ranges contain a common day
C26_MinimumRows ==
    policy \in {"direct", "packed"} => maxRow + 1 = Depth

\* three bars of which one overlaps the two others, which have no day in
\* common: two rows, one of them holding two bars
C26_Witness ==
    /\ policy \in {"direct", "packed"}
    /\ Len(taskBars) = 3
    /\ Depth = 2
    /\ maxRow = 1
    /\ \E i, j, k \in BarIndexes :
          /\ Intersect(i, j) /\ Intersect(j, k) /\ ~ Intersect(i, k)
          /\ taskBars[i].row = taskBars[k].row

\* the bar does not reach over the right edge of the timeline: left + width
\* <= 100, both held as numerators over Denominator(timelineData)
InsideTimeline(bar) ==
    /\ bar.left >= 0
    /\ bar.left + bar.width <= 100 * Denominator(timelineData)

\* C27: every bar of a visible task lies inside the timeline, left >= 0 and
\* left + width <= 100, in quarter and year periods, bars of the minimum
\* width included
C27_InsideTimeline ==
    policy # "none" => \A i \in VisibleBars : InsideTimeline(taskBars[i])

\* C27 in a zone without daylight saving time
C27_InsideTimeline_noClockChange ==
    (policy # "none" /\ ~ dstZone) => \A i \in VisibleBars : InsideTimeline(taskBars[i])

\* C27 for the bars of a zone without daylight saving time whose width was
\* not raised to the minimum
C27_InsideTimeline_notRaised ==
    (policy # "none" /\ ~ dstZone) =>
        \A i \in VisibleBars :
            taskBars[i].width > 1 * HoursPerDay * PeriodDays => InsideTimeline(taskBars[i])

\* the fields a layout pass adds to a task to make its bar
BarFields == { "left", "width", "row", "isPartial", "continuesLeft", "continuesRight" }

-----------------------------------------------------------------------------
(* Navigation: App, QuarterNavigation, useQuarterNavigation, and the        *)
(* navigation handlers of the earlier GanttChart                            *)

\* the years navigation is followed through
NavYears == (EpochYear - MaxYearSpan)..(EpochYear + MaxYearSpan)

Target(y, q) == [year |-> y, quarter |-> q]

\* App.handleQuarterChange: setYear(newYear); setQuarter(newQuarter)
handleQuarterChange_yearOnly(newYear, newQuarter) ==
    year' = newYear /\ UNCHANGED quarter

handleQuarterChange(newYear, newQuarter) ==
    year' = newYear /\ quarter' = newQuarter

\* the onQuarterChange prop: GanttChart.handleQuarterChange forwards the call
\* to App.handleQuarterChange; the call is recorded in navCalls
onQuarterChange(newYear, newQuarter) ==
    /\ navCalls' = <<Target(newYear, newQuarter)>>
    /\ handleQuarterChange(newYear, newQuarter)

\* a handler that returns without calling onQuarterChange
NoNavigation ==
    /\ navCalls' = <<>>
    /\ UNCHANGED <<year, quarter>>

\* GanttChart (earlier revision) handlePreviousQuarter: the new (year, quarter)
PreviousQuarter_sameYear(y, q) ==
    IF q - 1 < 1 THEN Target(y, 4) ELSE Target(y, q - 1)

PreviousQuarter(y, q) ==
    IF q - 1 < 1 THEN Target(y - 1, 4) ELSE Target(y, q - 1)

\* GanttChart (earlier revision) handleNextQuarter: the new (year, quarter)
NextQuarter_noWrap(y, q) == Target(y, q + 1)

NextQuarter(y, q) ==
    IF q + 1 > 4 THEN Target(y + 1, 1) ELSE Target(y, q + 1)

\* useQuarterNavigation: whether the bounds option admits a year
InBounds_upperOnly(y, b) == (~ b.present) \/ y <= b.maxYear

InBounds(y, b) == (~ b.present) \/ (b.minYear <= y /\ y <= b.maxYear)

\* useQuarterNavigation: where previous and next lead in each mode
PreviousTarget(y, q, mode) ==
    IF mode = "year" THEN Target(y - 1, q)
    ELSE IF q = 1 THEN Target(y - 1, 4) ELSE Target(y, q - 1)

NextTarget(y, q, mode) ==
    IF mode = "year" THEN Target(y + 1, q)
    ELSE IF q = 4 THEN Target(y + 1, 1) ELSE Target(y, q + 1)

canGoBack(y, q, mode, b) == InBounds(PreviousTarget(y, q, mode).year, b)

canGoForward(y, q, mode, b) == InBounds(NextTarget(y, q, mode).year, b)

\* useQuarterNavigation: every transition ends here; one that would leave
\* the bounds changes nothing and does not call onNavigate
goToQuarter(y, q, b) ==
    IF InBounds(y, b) THEN onQuarterChange(y, q) ELSE NoNavigation

goToPrevious(mode, b) ==
    LET target == PreviousTarget(year, quarter, mode)
    IN  goToQuarter(target.year, target.quarter, b)

goToNext(mode, b) ==
    LET target == NextTarget(year, quarter, mode)
    IN  goToQuarter(target.year, target.quarter, b)

goToToday(b) ==
    LET now == getQuarterInfo(today)
    IN  goToQuarter(now.year, now.quarter, b)

\* React renders between two events: a handler runs on the rendered state
Rendered == timelineData = TimelineData(year, quarter, viewMode)

\* what no navigation handler touches
NavFrame == UNCHANGED <<viewMode, bounds, today, panelVars, storeVars, layoutVars, dstZone, lastCall>>

\* GanttChart (earlier revision, quarter view only): handlePreviousQuarter
handlePreviousQuarter ==
    /\ Rendered
    /\ bounds = NoBounds
    /\ viewMode = "quarter"
    /\ LET target == PreviousQuarter(year, quarter)
       IN  onQuarterChange(target.year, target.quarter)
    /\ year' \in NavYears
    /\ lastNav' = "previous"
    /\ NavFrame

\* GanttChart (earlier revision, quarter view only): handleNextQuarter
handleNextQuarter ==
    /\ Rendered
    /\ bounds = NoBounds
    /\ viewMode = "quarter"
    /\ LET target == NextQuarter(year, quarter)
       IN  onQuarterChange(target.year, target.quarter)
    /\ year' \in NavYears
    /\ lastNav' = "next"
    /\ NavFrame

\* QuarterNavigation.handlePrevious; the component passes no bounds to the
\* hook, and GanttChart disables it while panelMode is not 'chart'
handlePrevious_lastQuarter ==
    /\ Rendered
    /\ bounds = NoBounds
    /\ IF panelMode # "chart" THEN NoNavigation
       ELSE IF viewMode = "quarter"
            THEN IF ~ canGoBack(year, quarter, "quarter", NoBounds) THEN NoNavigation
                 ELSE goToPrevious("quarter", NoBounds)
            ELSE onQuarterChange(year - 1, 4)
    /\ year' \in NavYears
    /\ lastNav' = "previous"
    /\ NavFrame

handlePrevious ==
    /\ Rendered
    /\ bounds = NoBounds
    /\ IF panelMode # "chart" THEN NoNavigation
       ELSE IF viewMode = "quarter"
            THEN IF ~ canGoBack(year, quarter, "quarter", NoBounds) THEN NoNavigation
                 ELSE goToPrevious("quarter", NoBounds)
            ELSE onQuarterChange(year - 1, quarter)
    /\ year' \in NavYears
    /\ lastNav' = "previous"
    /\ NavFrame

\* QuarterNavigation.handleNext
handleNext ==
    /\ Rendered
    /\ bounds = NoBounds
    /\ IF panelMode # "chart" THEN NoNavigation
       ELSE IF viewMode = "quarter"
            THEN IF ~ canGoForward(year, quarter, "quarter", NoBounds) THEN NoNavigation
                 ELSE goToNext("quarter", NoBounds)
            ELSE onQuarterChange(year + 1, quarter)
    /\ year' \in NavYears
    /\ lastNav' = "next"
    /\ NavFrame

\* QuarterNavigation.handleToday
handleToday_keepQuarter ==
    /\ Rendered
    /\ bounds = NoBounds
    /\ IF panelMode # "chart" THEN NoNavigation
       ELSE IF viewMode = "quarter" THEN goToToday(NoBounds)
            ELSE onQuarterChange(GetFullYear(today), quarter)
    /\ lastNav' = "today"
    /\ NavFrame

handleToday ==
    /\ Rendered
    /\ bounds = NoBounds
    /\ IF panelMode # "chart" THEN NoNavigation
       ELSE IF viewMode = "quarter" THEN goToToday(NoBounds)
            ELSE onQuarterChange(GetFullYear(today), (GetMonth(today) \div 3) + 1)
    /\ lastNav' = "today"
    /\ NavFrame

\* useQuarterNavigation used with the options held in bounds: goToPrevious()
HookGoToPrevious ==
    /\ Rendered
    /\ goToPrevious(viewMode, bounds)
    /\ year' \in NavYears
    /\ lastNav' = "previous"
    /\ NavFrame

\* useQuarterNavigation: goToNext()
HookGoToNext ==
    /\ Rendered
    /\ goToNext(viewMode, bounds)
    /\ year' \in NavYears
    /\ lastNav' = "next"
    /\ NavFrame

\* useQuarterNavigation: goToToday()
HookGoToToday ==
    /\ Rendered
    /\ goToToday(bounds)
    /\ lastNav' = "today"
    /\ NavFrame

\* useQuarterNavigation: goToQuarter(y, q)
HookGoToQuarter ==
    /\ Rendered
    /\ \E y \in NavYears, q \in 1..4 : goToQuarter(y, q, bounds)
    /\ lastNav' = "quarter"
    /\ NavFrame

\* QuarterNavigation: the Segmented control, onViewModeChange = setViewMode
ToggleViewMode ==
    /\ Rendered
    /\ panelMode = "chart"
    /\ viewMode' = IF viewMode = "quarter" THEN "year" ELSE "quarter"
    /\ UNCHANGED <<year, quarter, bounds, navCalls, lastNav, today, panelVars,
                   storeVars, layoutVars, dstZone, lastCall>>

\* GanttChart: the toolbar button
ToolbarToggle ==
    /\ IF panelMode = "chart"
       THEN panelMode' = "add" /\ UNCHANGED selectedTask
       ELSE panelMode' = "chart" /\ selectedTask' = NoTask
    /\ UNCHANGED <<awaiting, navVars, storeVars, layoutVars, dstZone, lastCall>>

MaxBoundsWidth == 1

\* the bounds option: absent, or a range of years around EpochYear
BoundsChoices ==
    {NoBounds} \cup
    { [present |-> TRUE, minYear |-> EpochYear - before, maxYear |-> EpochYear + after] :
        before \in 0..MaxBoundsWidth, after \in 0..MaxBoundsWidth }

\* the days the clock may show: 15 November of the year before EpochYear
\* and 1 July of the year after it
TodayChoices == { NewDate(EpochYear - 1, 10, 15), NewDate(EpochYear + 1, 6, 1) }

InitNav ==
    /\ dstZone \in BOOLEAN
    /\ tasks = <<>>
    /\ lastResult = NoResult
    /\ isLoading = FALSE
    /\ error = NoError
    /\ errors = <<>>
    /\ hookVariant = "useTasks"
    /\ FreshRender
    /\ year \in NavYears
    /\ quarter \in 1..4
    /\ viewMode = "quarter"
    /\ bounds \in BoundsChoices
    /\ bounds.present => (bounds.minYear <= year /\ year <= bounds.maxYear)
    /\ navCalls = <<>>
    /\ lastNav = "none"
    /\ today \in TodayChoices
    /\ panelMode = "chart"
    /\ selectedTask = NoTask
    /\ timelineData = TimelineData(year, quarter, viewMode)
    /\ quarterTasks = <<>>
    /\ taskBars = <<>>
    /\ maxRow = -1
    /\ chartHeight = MinChartHeight
    /\ policy = "none"

\* LayoutPacked is the render that follows a change of year, quarter or
\* viewMode
NextNav ==
    \/ handlePreviousQuarter
    \/ handleNextQuarter
    \/ handlePrevious
    \/ handleNext
    \/ handleToday
    \/ HookGoToPrevious
    \/ HookGoToNext
    \/ HookGoToToday
    \/ HookGoToQuarter
    \/ ToggleViewMode
    \/ ToolbarToggle
    \/ LayoutPacked

SpecNav == InitNav /\ [][NextNav]_vars

-----------------------------------------------------------------------------
(* Runs of next and previous steps in quarter mode without bounds.  Each    *)
(* action is a handler followed by the render of the new period; lastCall   *)
(* keeps where the run began and the steps taken since.                     *)

MaxTrip == 4

\* the run so far, with one more step
Recorded(step) ==
    lastCall' = [made |-> TRUE, fn |-> "trip",
                 from |-> IF lastCall.made THEN lastCall.from ELSE Target(year, quarter),
                 steps |-> IF lastCall.made THEN Append(lastCall.steps, step) ELSE <<step>>]

TripLength == IF lastCall.made THEN Len(lastCall.steps) ELSE 0

\* what a step of a run leaves alone; the render follows the step
TripFrame ==
    /\ timelineData' = TimelineData(year', quarter', viewMode)
    /\ UNCHANGED <<viewMode, bounds, today, panelVars, storeVars, quarterTasks,
                   taskBars, maxRow, chartHeight, policy, dstZone>>

\* GanttChart (earlier revision): handleNextQuarter, then the render
TripNextQuarter ==
    /\ TripLength < MaxTrip
    /\ Rendered
    /\ LET target == NextQuarter(year, quarter)
       IN  onQuarterChange(target.year, target.quarter)
    /\ year' \in NavYears
    /\ lastNav' = "next"
    /\ Recorded("next")
    /\ TripFrame

\* GanttChart (earlier revision): handlePreviousQuarter, then the render
TripPreviousQuarter ==
    /\ TripLength < MaxTrip
    /\ Rendered
    /\ LET target == PreviousQuarter(year, quarter)
       IN  onQuarterChange(target.year, target.quarter)
    /\ year' \in NavYears
    /\ lastNav' = "previous"
    /\ Recorded("previous")
    /\ TripFrame

\* QuarterNavigation.handleNext in quarter mode, enabled, then the render
TripHandleNext ==
    /\ TripLength < MaxTrip
    /\ Rendered
    /\ IF ~ canGoForward(year, quarter, "quarter", NoBounds) THEN NoNavigation
       ELSE goToNext("quarter", NoBounds)
    /\ year' \in NavYears
    /\ lastNav' = "next"
    /\ Recorded("next")
    /\ TripFrame

\* QuarterNavigation.handlePrevious in quarter mode, enabled, then the render
TripHandlePrevious ==
    /\ TripLength < MaxTrip
    /\ Rendered
    /\ IF ~ canGoBack(year, quarter, "quarter", NoBounds) THEN NoNavigation
       ELSE goToPrevious("quarter", NoBounds)
    /\ year' \in NavYears
    /\ lastNav' = "previous"
    /\ Recorded("previous")
    /\ TripFrame

\* quarter mode, no bounds, any year and quarter
InitTrip ==
    /\ InitNav
    /\ bounds = NoBounds
    /\ today = NewDate(EpochYear + 1, 6, 1)

NextTrip == TripNextQuarter \/ TripPreviousQuarter \/ TripHandleNext \/ TripHandlePrevious

SpecTrip == InitTrip /\ [][NextTrip]_vars

\* the steps of a run, counted
StepsOf(kind) ==
    IF lastCall.made
    THEN Cardinality({k \in 1..Len(lastCall.steps) : lastCall.steps[k] = kind})
    ELSE 0

\* C28: in quarter mode without bounds a run of next, previous, or of
\* previous, next, ends at the (year, quarter) it began at, and a run of
\* four next steps ends at the same quarter of the following year; in
\* general a run ends as many quarters after its beginning as it has more
\* next steps than previous steps, the quarter staying in 1..4
C28_Inverse ==
    (lastCall.made /\ lastCall.fn = "trip") =>
        /\ lastCall.steps \in {<<"next", "previous">>, <<"previous", "next">>}
              => Target(year, quarter) = lastCall.from
        /\ lastCall.steps = <<"next", "next", "next", "next">>
              => Target(year, quarter) = Target(lastCall.from.year + 1, lastCall.from.quarter)
        /\ 4 * year + quarter =
              4 * lastCall.from.year + lastCall.from.quarter + StepsOf("next") - StepsOf("previous")
        /\ quarter \in 1..4

\* a run that began in the first quarter has stepped back over the start
\* of the year and forward again
C28_Witness ==
    /\ lastCall.made
    /\ lastCall.fn = "trip"
    /\ lastCall.steps = <<"previous", "next">>
    /\ lastCall.from = Target(EpochYear, 1)
    /\ year = EpochYear
    /\ quarter = 1
    /\ navCalls = <<Target(EpochYear, 1)>>

\* a run of four next steps that began in the third quarter
C28_Witness_fourNext ==
    /\ lastCall.made
    /\ lastCall.fn = "trip"
    /\ lastCall.steps = <<"next", "next", "next", "next">>
    /\ lastCall.from = Target(EpochYear, 3)
    /\ year = EpochYear + 1
    /\ quarter = 3

-----------------------------------------------------------------------------
(* Properties of the navigation specification *)

\* a next step in quarter mode that the bounds do not block
QuarterNextStep ==
    \/ handleNextQuarter
    \/ (viewMode = "quarter" /\ panelMode = "chart" /\ handleNext)
    \/ (viewMode = "quarter" /\ navCalls' # <<>> /\ HookGoToNext)

\* a previous step in quarter mode that the bounds do not block
QuarterPreviousStep ==
    \/ handlePreviousQuarter
    \/ (viewMode = "quarter" /\ panelMode = "chart" /\ handlePrevious)
    \/ (viewMode = "quarter" /\ navCalls' # <<>> /\ HookGoToPrevious)

\* a today step, of the enabled component or of the hook when the bounds
\* do not block it
TodayStep ==
    \/ (panelMode = "chart" /\ handleToday)
    \/ (navCalls' # <<>> /\ HookGoToToday)

\* C21: a today step leads from any (year, quarter), in quarter mode and in
\* year mode, to the year of the current date and the quarter
\* floor(monthIndex / 3) + 1 of its month, in one navigation call that
\* names that target and no quarter in between
C21_TodayJump ==
    [][ TodayStep =>
          /\ year' = GetFullYear(today)
          /\ quarter' = (GetMonth(today) \div 3) + 1
          /\ navCalls' = <<Target(GetFullYear(today), (GetMonth(today) \div 3) + 1)>> ]_vars

\* the component, showing a year three years before the current date's,
\* has jumped to 1 July of the year after EpochYear: third quarter
C21_Witness ==
    /\ bounds = NoBounds
    /\ panelMode = "chart"
    /\ viewMode = "year"
    /\ lastNav = "today"
    /\ today = NewDate(EpochYear + 1, 6, 1)
    /\ timelineData.year = EpochYear - 2
    /\ timelineData.mode = "year"
    /\ year = EpochYear + 1
    /\ quarter = 3
    /\ navCalls = <<Target(EpochYear + 1, 3)>>

\* a next step in year mode, of the enabled component or of the hook when
\* the bounds do not block it
YearNextStep ==
    \/ (viewMode = "year" /\ panelMode = "chart" /\ handleNext)
    \/ (viewMode = "year" /\ navCalls' # <<>> /\ HookGoToNext)

\* a previous step in year mode
YearPreviousStep ==
    \/ (viewMode = "year" /\ panelMode = "chart" /\ handlePrevious)
    \/ (viewMode = "year" /\ navCalls' # <<>> /\ HookGoToPrevious)

\* C20: in year mode previous leads from (year, q) to (year-1, q) and next
\* to (year+1, q), and a switch of the view mode changes neither the year
\* nor the quarter, so the quarter shown after switching back to quarter
\* mode is the one shown before
C20_YearSteps ==
    [][ /\ YearNextStep => (year' = year + 1 /\ quarter' = quarter)
        /\ YearPreviousStep => (year' = year - 1 /\ quarter' = quarter)
        /\ ToggleViewMode => (year' = year /\ quarter' = quarter) ]_vars

\* the component, showing a year, has stepped back one year from a render
\* of the year view, and the quarter it keeps is the third
C20_Witness ==
    /\ bounds = NoBounds
    /\ panelMode = "chart"
    /\ viewMode = "year"
    /\ timelineData.mode = "year"
    /\ timelineData.year = year + 1
    /\ lastNav = "previous"
    /\ navCalls = <<Target(year, 3)>>
    /\ quarter = 3

\* C4: in quarter mode next leads from (year, 4) to (year+1, 1) and from
\* (year, q<4) to (year, q+1); previous leads from (year, 1) to (year-1, 4)
\* and from (year, q>1) to (year, q-1); the quarter stays in 1..4
C4_QuarterSteps ==
    [][ /\ QuarterNextStep =>
              IF quarter = 4 THEN year' = year + 1 /\ quarter' = 1
              ELSE year' = year /\ quarter' = quarter + 1
        /\ QuarterPreviousStep =>
              IF quarter = 1 THEN year' = year - 1 /\ quarter' = 4
              ELSE year' = year /\ quarter' = quarter - 1
        /\ quarter' \in 1..4 ]_vars

\* the component has stepped forward over the end of a year
C4_Witness ==
    /\ bounds = NoBounds
    /\ lastNav = "next"
    /\ viewMode = "quarter"
    /\ quarter = 1
    /\ year = EpochYear + 1
    /\ navCalls = <<Target(EpochYear + 1, 1)>>

\* a step of one of the four transitions of the hook
HookStep == HookGoToPrevious \/ HookGoToNext \/ HookGoToToday \/ HookGoToQuarter

\* the year previous and next would lead to
YearBefore == IF viewMode = "year" \/ quarter = 1 THEN year - 1 ELSE year

YearAfter == IF viewMode = "year" \/ quarter = 4 THEN year + 1 ELSE year

\* C5: with bounds {minYear, maxYear} and the initial year inside them the
\* year stays within [minYear, maxYear] through previous, next, goToToday
\* and goToQuarter in either mode; a transition that would leave the range
\* leaves (year, quarter) unchanged and does not invoke the callback;
\* canGoBack / canGoForward are false exactly when previous / next would be
\* such a transition
C5_Bounds ==
    [][ bounds.present =>
          /\ bounds.minYear <= year /\ year <= bounds.maxYear
          /\ bounds.minYear <= year' /\ year' <= bounds.maxYear
          /\ canGoBack(year, quarter, viewMode, bounds) <=> (YearBefore >= bounds.minYear)
          /\ canGoForward(year, quarter, viewMode, bounds) <=> (YearAfter <= bounds.maxYear)
          /\ (HookGoToPrevious /\ YearBefore < bounds.minYear)
                => (UNCHANGED <<year, quarter>> /\ navCalls' = <<>>)
          /\ (HookGoToNext /\ YearAfter > bounds.maxYear)
                => (UNCHANGED <<year, quarter>> /\ navCalls' = <<>>)
          /\ (HookGoToToday /\ ~ (GetFullYear(today) \in bounds.minYear..bounds.maxYear))
                => (UNCHANGED <<year, quarter>> /\ navCalls' = <<>>)
          /\ HookStep =>
                \/ (UNCHANGED <<year, quarter>> /\ navCalls' = <<>>)
                \/ navCalls' = <<Target(year', quarter')>> ]_vars

\* next was blocked at the last quarter of maxYear, after the year had moved
\* inside the bounds
C5_Witness ==
    /\ bounds.present
    /\ bounds.minYear < bounds.maxYear
    /\ year = bounds.maxYear
    /\ quarter = 4
    /\ viewMode = "quarter"
    /\ lastNav = "next"
    /\ navCalls = <<>>

\* C6: every navigation transition that changes (year, quarter) invokes the
\* callback exactly once, with the new (year, quarter), and has no other
\* effect
C6_CallbackOnce ==
    [][ (year' # year \/ quarter' # quarter) =>
          /\ navCalls' = <<Target(year', quarter')>>
          /\ UNCHANGED <<viewMode, bounds, today, panelMode, selectedTask, tasks,
                         lastResult, timelineData, quarterTasks, taskBars, maxRow,
                         chartHeight, policy, dstZone>> ]_vars

\* previous has stepped back over the start of a year and reported it
C6_Witness ==
    /\ lastNav = "previous"
    /\ quarter = 4
    /\ year = EpochYear - 1
    /\ navCalls = <<Target(EpochYear - 1, 4)>>

\* C7: the resolved period of year Y and quarter Q starts on the 1st of
\* month (Q-1)*3+1 and ends on the last calendar day of month (Q-1)*3+3 of
\* Y, leap years included; in year mode it runs from Jan 1 to Dec 31 of Y
C7_Period ==
    LET Y == timelineData.year
        first == timelineData.startDate
        last  == timelineData.endDate
    IN  IF timelineData.mode = "year"
        THEN /\ GetFullYear(first) = Y /\ GetMonth(first) = 0 /\ GetDate(first) = 1
             /\ GetFullYear(last) = Y /\ GetMonth(last) = 11 /\ GetDate(last) = 31
        ELSE LET month == (timelineData.quarter - 1) * 3
             IN  /\ timelineData.quarter \in 1..4
                 /\ GetFullYear(first) = Y /\ GetMonth(first) = month /\ GetDate(first) = 1
                 /\ GetFullYear(last) = Y /\ GetMonth(last) = month + 2
                 /\ GetDate(last) = DaysInMonth(Y, month + 2)
                 /\ last - first + 1 =
                       DaysInMonth(Y, month) + DaysInMonth(Y, month + 1)
                           + DaysInMonth(Y, month + 2)

\* the first quarter of a leap year, resolved after navigating to it
C7_Witness ==
    /\ policy = "packed"
    /\ lastNav # "none"
    /\ timelineData.mode = "quarter"
    /\ timelineData.quarter = 1
    /\ IsLeapYear(timelineData.year)
    /\ timelineData.endDate - timelineData.startDate + 1 = 91

-----------------------------------------------------------------------------
(* The task store: useTasks and useTaskValidation *)

\* String.prototype.trim on a sequence of characters
RECURSIVE TrimStart(_)
TrimStart(str) ==
    IF str # <<>> /\ Head(str) = " " THEN TrimStart(Tail(str)) ELSE str

RECURSIVE TrimEnd(_)
TrimEnd(str) ==
    IF str # <<>> /\ str[Len(str)] = " " THEN TrimEnd(SubSeq(str, 1, Len(str) - 1))
    ELSE str

Trim(str) == TrimEnd(TrimStart(str))

ValidationError(field, message) == [field |-> field, message |-> message]

\* useTaskValidation.validateTask: the errors it finds (foundErrors)
FoundErrors_noDateOrder(task) ==
    (IF Trim(task.name) = <<>>
        THEN <<ValidationError("name", "TASK_NAME_REQUIRED")>> ELSE <<>>)
    \o (IF task.startDate = NoDate
        THEN <<ValidationError("startDate", "START_DATE_REQUIRED")>> ELSE <<>>)
    \o (IF task.endDate = NoDate
        THEN <<ValidationError("endDate", "END_DATE_REQUIRED")>> ELSE <<>>)

FoundErrors(task) ==
    (IF Trim(task.name) = <<>>
        THEN <<ValidationError("name", "TASK_NAME_REQUIRED")>> ELSE <<>>)
    \o (IF task.startDate = NoDate
        THEN <<ValidationError("startDate", "START_DATE_REQUIRED")>> ELSE <<>>)
    \o (IF task.endDate = NoDate
        THEN <<ValidationError("endDate", "END_DATE_REQUIRED")>> ELSE <<>>)
    \o (IF task.startDate # NoDate /\ task.endDate # NoDate
            /\ GetTime(task.startDate[1]) > GetTime(task.endDate[1])
        THEN <<ValidationError("endDate", "END_DATE_BEFORE_START")>> ELSE <<>>)

\* the first two of TASK_COLORS, the values getTaskColor() is followed through
TaskColors == {"#3B82F6", "#10B981"}

MaxStoreTasks == 2

\* the identifiers generateTaskId() is followed through; it draws them at
\* random, so it may return one that is in use
TaskIds == {"task_1", "task_2"}

\* useTasks.addTask(taskData), with generateTaskId() returning id and
\* getTaskColor() returning randomColor
addTask(taskData, id, randomColor) ==
    LET foundErrors == FoundErrors(taskData)
        newTask == [id |-> id,
                    name |-> Trim(taskData.name),
                    startDate |-> taskData.startDate[1],
                    endDate |-> taskData.endDate[1],
                    color |-> IF taskData.color # NoColor THEN taskData.color
                              ELSE randomColor]
    IN  /\ errors' = foundErrors
        /\ error' = NoError
        /\ isLoading' = FALSE
        /\ IF foundErrors # <<>>
           THEN /\ tasks' = tasks
                /\ lastResult' = [settled |-> TRUE, op |-> "addTask", input |-> taskData,
                                  success |-> FALSE,
                                  errors |-> [general |-> "SAVE_TASK_FAILED"]]
           ELSE /\ tasks' = Append(tasks, newTask)
                /\ lastResult' = [settled |-> TRUE, op |-> "addTask", input |-> taskData,
                                  success |-> TRUE, task |-> newTask]

\* tasks.some(task => task.id === taskId)
TaskExists(ts, taskId) == \E i \in 1..Len(ts) : ts[i].id = taskId

\* tasks.find(task => task.id === taskId): the index of the first task with
\* that id, 0 when there is none (undefined)
FindTask_first(ts, taskId) == IF ts # <<>> THEN 1 ELSE 0

FindTask(ts, taskId) ==
    IF TaskExists(ts, taskId)
    THEN SetMin({ i \in 1..Len(ts) : ts[i].id = taskId })
    ELSE 0

\* a field of Partial<Omit<Task, 'id'>> that is not given; a name that is
\* given is Some(name)
NoName == <<>>

\* { ...existingTask, ...updateData }
Merge(existingTask, updateData) ==
    [id |-> existingTask.id,
     name |-> IF updateData.name = NoName THEN existingTask.name ELSE updateData.name[1],
     startDate |-> IF updateData.startDate = NoDate THEN existingTask.startDate
                   ELSE updateData.startDate[1],
     endDate |-> IF updateData.endDate = NoDate THEN existingTask.endDate
                 ELSE updateData.endDate[1],
     color |-> IF updateData.color = NoColor THEN existingTask.color ELSE updateData.color]

\* a task as validateTask reads it: both of its dates are set
AsPartial(task) ==
    [name |-> task.name, startDate |-> Some(task.startDate),
     endDate |-> Some(task.endDate), color |-> task.color]

\* prevTasks.map(task => task.id === taskId ? updatedTask : task)
MapUpdated_moveToEnd(prevTasks, taskId, updatedTask) ==
    IF TaskExists(prevTasks, taskId)
    THEN Append(SelectSeq(prevTasks, LAMBDA task : task.id # taskId), updatedTask)
    ELSE prevTasks

MapUpdated(prevTasks, taskId, updatedTask) ==
    [i \in 1..Len(prevTasks) |->
        IF prevTasks[i].id = taskId THEN updatedTask ELSE prevTasks[i]]

\* prevTasks.filter(task => task.id !== taskId)
FilterDeleted_stale(prevTasks, taskId) ==
    SelectSeq(renderedTasks, LAMBDA task : task.id # taskId)

FilterDeleted(prevTasks, taskId) ==
    SelectSeq(prevTasks, LAMBDA task : task.id # taskId)

\* useTasks.updateTask(taskId, updateData); tasks in its body is the value the
\* callback closed over, renderedTasks, and setTasks maps the queued state
updateTask(taskId, updateData) ==
    LET found == FindTask(renderedTasks, taskId)
        updatedTaskData == Merge(renderedTasks[found], updateData)
        foundErrors == FoundErrors(AsPartial(updatedTaskData))
        updatedTask == [updatedTaskData EXCEPT !.id = taskId, !.name = Trim(@)]
        call == [settled |-> TRUE, op |-> "updateTask", taskId |-> taskId,
                 input |-> updateData]
    IN  /\ error' = NoError
        /\ isLoading' = FALSE
        /\ IF found = 0
           THEN /\ UNCHANGED <<tasks, errors>>
                /\ lastResult' = call @@ [success |-> FALSE,
                                          errors |-> [general |-> "TASK_NOT_FOUND"]]
           ELSE /\ errors' = foundErrors
                /\ IF foundErrors # <<>>
                   THEN /\ tasks' = tasks
                        /\ lastResult' = call @@ [success |-> FALSE,
                                                  errors |-> [general |-> "SAVE_TASK_FAILED"]]
                   ELSE /\ tasks' = MapUpdated(tasks, taskId, updatedTask)
                        /\ lastResult' = call @@ [success |-> TRUE, task |-> updatedTask]

\* useTasks.deleteTask(taskId)
deleteTask(taskId) ==
    LET call == [settled |-> TRUE, op |-> "deleteTask", taskId |-> taskId]
    IN  /\ error' = NoError
        /\ isLoading' = FALSE
        /\ errors' = errors
        /\ IF ~ TaskExists(renderedTasks, taskId)
           THEN /\ tasks' = tasks
                /\ lastResult' = call @@ [success |-> FALSE, error |-> "TASK_NOT_FOUND"]
           ELSE /\ tasks' = FilterDeleted(tasks, taskId)
                /\ lastResult' = call @@ [success |-> TRUE]

\* useTaskValidation.getFormErrors over the errors it closed over: each
\* field is mapped to the message of the last error of that field
getFormErrors(errs) ==
    [field \in { errs[i].field : i \in 1..Len(errs) } |->
        errs[SetMax({ i \in 1..Len(errs) : errs[i].field = field })].message]

\* the option autoValidate of the useTasks variant with options, at its default
autoValidate == TRUE

\* addTask of the useTasks variant with options (initialTasks, autoValidate):
\* a rejected input resolves to getFormErrors(), which reads the errors of
\* the last render, and the name is stored as given
addTask025(taskData, id, randomColor) ==
    LET foundErrors == FoundErrors(taskData)
        newTask == [id |-> id,
                    name |-> taskData.name,
                    startDate |-> taskData.startDate[1],
                    endDate |-> taskData.endDate[1],
                    color |-> IF taskData.color # NoColor THEN taskData.color
                              ELSE randomColor]
        call == [settled |-> TRUE, op |-> "addTask", input |-> taskData]
    IN  /\ error' = NoError
        /\ isLoading' = FALSE
        /\ errors' = IF autoValidate THEN foundErrors ELSE errors
        /\ IF autoValidate /\ foundErrors # <<>>
           THEN /\ tasks' = tasks
                /\ lastResult' = call @@ [success |-> FALSE,
                                          errors |-> getFormErrors(renderedErrors)]
           ELSE /\ tasks' = Append(tasks, newTask)
                /\ lastResult' = call @@ [success |-> TRUE, task |-> newTask]

\* updateTask of the variant with options
updateTask025(taskId, updateData) ==
    LET found == FindTask(renderedTasks, taskId)
        updatedTask == Merge(renderedTasks[found], updateData)
        foundErrors == FoundErrors(AsPartial(updatedTask))
        call == [settled |-> TRUE, op |-> "updateTask", taskId |-> taskId,
                 input |-> updateData]
    IN  /\ error' = NoError
        /\ isLoading' = FALSE
        /\ IF found = 0
           THEN /\ UNCHANGED <<tasks, errors>>
                /\ lastResult' = call @@ [success |-> FALSE, error |-> "Task not found"]
           ELSE /\ errors' = IF autoValidate THEN foundErrors ELSE errors
                /\ IF autoValidate /\ foundErrors # <<>>
                   THEN /\ tasks' = tasks
                        /\ lastResult' = call @@ [success |-> FALSE,
                                                  errors |-> getFormErrors(renderedErrors)]
                   ELSE /\ tasks' = MapUpdated(tasks, taskId, updatedTask)
                        /\ lastResult' = call @@ [success |-> TRUE, task |-> updatedTask]

\* deleteTask of the variant with options
deleteTask025(taskId) ==
    LET call == [settled |-> TRUE, op |-> "deleteTask", taskId |-> taskId]
    IN  /\ error' = NoError
        /\ isLoading' = FALSE
        /\ errors' = errors
        /\ IF ~ TaskExists(renderedTasks, taskId)
           THEN /\ tasks' = tasks
                /\ lastResult' = call @@ [success |-> FALSE, error |-> "Task not found"]
           ELSE /\ tasks' = FilterDeleted(tasks, taskId)
                /\ lastResult' = call @@ [success |-> TRUE]

\* the render that follows a call once it has resolved: the callbacks are
\* created again over the new tasks and errors
ThenRender ==
    /\ renderedTasks' = tasks'
    /\ renderedErrors' = errors'
    /\ pendingOps' = 0

\* the identifiers given out so far, after a call of addTask that drew id
Issued(id) ==
    IF lastResult'.success THEN issuedIds \cup {id} ELSE issuedIds

\* the task data addTask is called with
NameChoices == { <<" ">>, <<"T">>, <<" ", "T", " ">> }

FirstDay == NewDate(EpochYear, 0, 1)

DatePairs ==
    { <<NoDate, Some(FirstDay)>>, <<Some(FirstDay), NoDate>>,
      <<Some(FirstDay), Some(FirstDay)>>, <<Some(FirstDay), Some(FirstDay + 1)>>,
      <<Some(FirstDay + 1), Some(FirstDay)>> }

ColorChoices == { NoColor, "#3B82F6" }

TaskInputs ==
    { [name |-> name, startDate |-> dates[1], endDate |-> dates[2], color |-> color] :
        name \in NameChoices, dates \in DatePairs, color \in ColorChoices }

\* a call of addTask; the list is followed up to MaxStoreTasks tasks
AddTaskWith(taskData, id, randomColor) ==
    /\ addTask(taskData, id, randomColor)
    /\ Len(tasks') <= MaxStoreTasks
    /\ ThenRender
    /\ issuedIds' = Issued(id)
    /\ UNCHANGED hookVariant
    /\ UNCHANGED <<navVars, panelVars, layoutVars, dstZone, lastCall>>

AddTask ==
    \E taskData \in TaskInputs, id \in TaskIds, randomColor \in TaskColors :
        AddTaskWith(taskData, id, randomColor)

InitStore ==
    /\ dstZone \in BOOLEAN
    /\ tasks = <<>>
    /\ lastResult = NoResult
    /\ isLoading = FALSE
    /\ error = NoError
    /\ errors = <<>>
    /\ hookVariant = "useTasks"
    /\ FreshRender
    /\ year = EpochYear
    /\ quarter = 1
    /\ viewMode = "quarter"
    /\ bounds = NoBounds
    /\ navCalls = <<>>
    /\ lastNav = "none"
    /\ today = NewDate(EpochYear, 0, 1)
    /\ panelMode = "chart"
    /\ selectedTask = NoTask
    /\ timelineData = TimelineData(year, quarter, viewMode)
    /\ quarterTasks = <<>>
    /\ taskBars = <<>>
    /\ maxRow = -1
    /\ chartHeight = MinChartHeight
    /\ policy = "none"

NextStore == AddTask

SpecStore == InitStore /\ [][NextStore]_vars

-----------------------------------------------------------------------------
(* The task store under create, update and delete, one call at a time: each *)
(* call resolves and the hook renders again before the next call.           *)

\* the task data addTask is called with here: a name or a blank, and a
\* start before, on or after the end
CrudTaskInputs ==
    { taskData \in TaskInputs :
        /\ taskData.color = NoColor
        /\ taskData.name \in { <<"T">>, <<" ">> }
        /\ taskData.startDate # NoDate
        /\ taskData.endDate # NoDate }

\* the update data updateTask is called with: a new name, a blank name or
\* none, and an end on the start day, before it, or none
UpdateInputs ==
    { [name |-> name, startDate |-> NoDate, endDate |-> endDate, color |-> NoColor] :
        name \in { NoName, Some(<<"U">>), Some(<<" ">>) },
        endDate \in { NoDate, Some(FirstDay), Some(FirstDay - 1) } }

\* the colour getTaskColor() returns here
CrudColors == { "#3B82F6" }

StoreFrame == UNCHANGED <<navVars, panelVars, layoutVars, dstZone, lastCall, hookVariant>>

CallAddTask(taskData, id, randomColor) ==
    /\ IF hookVariant = "useTasks"
       THEN addTask(taskData, id, randomColor)
       ELSE addTask025(taskData, id, randomColor)
    /\ Len(tasks') <= MaxStoreTasks
    /\ issuedIds' = Issued(id)
    /\ StoreFrame

CallUpdateTask(taskId, updateData) ==
    /\ IF hookVariant = "useTasks"
       THEN updateTask(taskId, updateData)
       ELSE updateTask025(taskId, updateData)
    /\ UNCHANGED issuedIds
    /\ StoreFrame

CallDeleteTask(taskId) ==
    /\ IF hookVariant = "useTasks" THEN deleteTask(taskId) ELSE deleteTask025(taskId)
    /\ UNCHANGED issuedIds
    /\ StoreFrame

CrudAdd ==
    \E taskData \in CrudTaskInputs, id \in TaskIds, randomColor \in CrudColors :
        CallAddTask(taskData, id, randomColor) /\ ThenRender

CrudUpdate ==
    \E taskId \in TaskIds, updateData \in UpdateInputs :
        CallUpdateTask(taskId, updateData) /\ ThenRender

CrudDelete ==
    \E taskId \in TaskIds : CallDeleteTask(taskId) /\ ThenRender

InitCrud ==
    /\ dstZone \in BOOLEAN
    /\ hookVariant \in { "useTasks", "part_025" }
    /\ tasks = <<>>
    /\ lastResult = NoResult
    /\ isLoading = FALSE
    /\ error = NoError
    /\ errors = <<>>
    /\ FreshRender
    /\ year = EpochYear
    /\ quarter = 1
    /\ viewMode = "quarter"
    /\ bounds = NoBounds
    /\ navCalls = <<>>
    /\ lastNav = "none"
    /\ today = NewDate(EpochYear, 0, 1)
    /\ panelMode = "chart"
    /\ selectedTask = NoTask
    /\ timelineData = TimelineData(year, quarter, viewMode)
    /\ quarterTasks = <<>>
    /\ taskBars = <<>>
    /\ maxRow = -1
    /\ chartHeight = MinChartHeight
    /\ policy = "none"

NextCrud == CrudAdd \/ CrudUpdate \/ CrudDelete

SpecCrud == InitCrud /\ [][NextCrud]_vars

-----------------------------------------------------------------------------
(* The task store with calls that overlap: a call may be made before the    *)
(* hook has rendered the effect of the calls before it, so its callback     *)
(* still closes over the tasks and errors of the last render.               *)

MaxPending == 2

\* the task data and update data of the overlapping calls: an input that
\* validation accepts and one it rejects; an update of the name, of the end,
\* and one that validation rejects
PendingTaskInputs ==
    { taskData \in CrudTaskInputs :
        /\ taskData.startDate = Some(FirstDay)
        /\ taskData.endDate = Some(FirstDay + 1) }

PendingUpdateInputs ==
    { updateData \in UpdateInputs :
        \/ updateData.name = NoName /\ updateData.endDate = Some(FirstDay)
        \/ updateData.name # NoName /\ updateData.endDate = NoDate }

PendingCall ==
    /\ pendingOps < MaxPending
    /\ pendingOps' = pendingOps + 1
    /\ UNCHANGED <<renderedTasks, renderedErrors>>

PendingAdd ==
    \E taskData \in PendingTaskInputs, id \in TaskIds, randomColor \in CrudColors :
        CallAddTask(taskData, id, randomColor) /\ PendingCall

PendingUpdate ==
    \E taskId \in TaskIds, updateData \in PendingUpdateInputs :
        CallUpdateTask(taskId, updateData) /\ PendingCall

PendingDelete ==
    \E taskId \in TaskIds : CallDeleteTask(taskId) /\ PendingCall

\* the hook renders: the queued state becomes the state the callbacks see
Render ==
    /\ pendingOps > 0
    /\ renderedTasks' = tasks
    /\ renderedErrors' = errors
    /\ pendingOps' = 0
    /\ UNCHANGED <<tasks, lastResult, isLoading, error, errors, issuedIds>>
    /\ StoreFrame

NextPending == PendingAdd \/ PendingUpdate \/ PendingDelete \/ Render

SpecPending == InitCrud /\ [][NextPending]_vars

-----------------------------------------------------------------------------
(* Date text: formatDate and parseEstonianDate of utils/dateUtils.ts.  A    *)
(* string is a sequence of characters.                                      *)

DigitChars == <<"0", "1", "2", "3", "4", "5", "6", "7", "8", "9">>

IsDigit(c) == \E i \in 1..10 : DigitChars[i] = c

DigitValue(c) == (CHOOSE i \in 1..10 : DigitChars[i] = c) - 1

\* the decimal digits of a natural number, without padding ('numeric')
RECURSIVE Decimal(_)
Decimal(n) ==
    IF n < 10 THEN <<DigitChars[n + 1]>>
    ELSE Append(Decimal(n \div 10), DigitChars[(n % 10) + 1])

\* a number from 0 to 99 in two digits ('2-digit')
TwoDigit(n) == <<DigitChars[(n \div 10) + 1], DigitChars[(n % 10) + 1]>>

\* formatDate(date): toLocaleDateString('et-EE', { day: '2-digit',
\* month: '2-digit', year: 'numeric' }), the pattern dd.MM.y
formatDate(date) ==
    TwoDigit(GetDate(date)) \o <<".">> \o TwoDigit(GetMonth(date) + 1) \o <<".">>
        \o Decimal(GetFullYear(date))

\* str.split('.')
RECURSIVE Split(_)
Split(str) ==
    IF \A i \in 1..Len(str) : str[i] # "."
    THEN <<str>>
    ELSE LET dot == SetMin({ i \in 1..Len(str) : str[i] = "." })
         IN  <<SubSeq(str, 1, dot - 1)>> \o Split(SubSeq(str, dot + 1, Len(str)))

\* the value of a sequence of digits
RECURSIVE DigitsValue(_)
DigitsValue(digits) ==
    IF digits = <<>> THEN 0
    ELSE 10 * DigitsValue(SubSeq(digits, 1, Len(digits) - 1))
            + DigitValue(digits[Len(digits)])

\* NaN
NaN == <<>>

\* parseInt(str, 10) of a string without a sign: blanks are skipped, the
\* digits up to the first other character are read, NaN when there is none
parseInt(str) ==
    LET text == TrimStart(str)
        stop == { i \in 1..Len(text) : ~ IsDigit(text[i]) }
        digits == IF stop = {} THEN text ELSE SubSeq(text, 1, SetMin(stop) - 1)
    IN  IF digits = <<>> THEN NaN ELSE Some(DigitsValue(digits))

\* parseEstonianDate(dateStr): NoDate is null
parseEstonianDate(dateStr) ==
    LET parts == Split(Trim(dateStr))
        day == parseInt(parts[1])
        month == parseInt(parts[2])
        yearPart == parseInt(parts[3])
        date == NewDate(yearPart[1], month[1] - 1, day[1])
    IN  IF dateStr = <<>> THEN NoDate
        ELSE IF Len(parts) # 3 THEN NoDate
        ELSE IF day = NaN \/ month = NaN \/ yearPart = NaN THEN NoDate
        ELSE IF \/ GetDate(date) # day[1]
                \/ GetMonth(date) # month[1] - 1
                \/ GetFullYear(date) # yearPart[1]
             THEN NoDate
        ELSE Some(date)

\* useTaskValidation.validateEstonianDate(dateStr): the text matches
\* /^\d{2}\.\d{2}\.\d{4}$/ and names a day of the calendar
validateEstonianDate(dateStr) ==
    /\ Len(dateStr) = 10
    /\ \A i \in 1..10 : IF i \in {3, 6} THEN dateStr[i] = "." ELSE IsDigit(dateStr[i])
    /\ LET day == DigitsValue(SubSeq(dateStr, 1, 2))
           month == DigitsValue(SubSeq(dateStr, 4, 5))
           yearPart == DigitsValue(SubSeq(dateStr, 7, 10))
           date == NewDate(yearPart, month - 1, day)
       IN  /\ GetFullYear(date) = yearPart
           /\ GetMonth(date) = month - 1
           /\ GetDate(date) = day

\* the texts the conversions are followed through: day, month and year parts
\* joined by dots, and a few texts of another shape
DayTexts == { <<"0", "0">>, <<"0", "1">>, <<"2", "9">>, <<"3", "1">> }

MonthTexts == { <<"0", "1">>, <<"0", "2">>, <<"1", "2">>, <<"1", "3">> }

YearTexts == { <<"2", "0", "2", "3">>, <<"2", "0", "2", "4">>,
               <<"0", "9", "9", "9">>, <<"0", "0", "5", "0">> }

DateTexts ==
    { day \o <<".">> \o month \o <<".">> \o yearPart :
        day \in DayTexts, month \in MonthTexts, yearPart \in YearTexts }
    \cup { <<>>, <<"1", ".", "1", ".", "2", "0", "2", "3">>,
           <<"2", "3", ".", "0", "1">>,
           <<" ", "0", "1", ".", "0", "1", ".", "2", "0", "2", "4", " ">> }

\* the dates the conversions are followed through
DateChoices ==
    { NewDate(y, month, day) :
        y \in { 999, EpochYear - 1, EpochYear }, month \in { 0, 1, 11 },
        day \in { 1, 28, 29 } }

\* formatDate(parseEstonianDate(dateStr))
ParseThenFormat ==
    \E dateStr \in DateTexts :
        LET parsed == parseEstonianDate(dateStr)
        IN  /\ lastCall' = [made |-> TRUE, fn |-> "parseEstonianDate", text |-> dateStr,
                            date |-> parsed,
                            back |-> IF parsed = NoDate THEN NoDate
                                     ELSE Some(formatDate(parsed[1]))]
            /\ UNCHANGED <<storeVars, navVars, panelVars, layoutVars, dstZone>>

\* parseEstonianDate(formatDate(date))
FormatThenParse ==
    \E date \in DateChoices :
        LET text == formatDate(date)
        IN  /\ lastCall' = [made |-> TRUE, fn |-> "formatDate", date |-> Some(date),
                            text |-> text, back |-> parseEstonianDate(text)]
            /\ UNCHANGED <<storeVars, navVars, panelVars, layoutVars, dstZone>>

NextDates == ParseThenFormat \/ FormatThenParse

SpecDates == InitCrud /\ [][NextDates]_vars

-----------------------------------------------------------------------------
(* The weeks of a period: buildWeeks of the timelineData memo, and         *)
(* getWeekNumber of utils/dateUtils.ts                                      *)

\* getWeekNumber(date): the ISO week of the date, computed in UTC from the
\* Thursday of its week
getWeekNumber(date) ==
    LET dayNum   == IF GetDay(date) = 0 THEN 7 ELSE GetDay(date)
        thursday == date + 4 - dayNum
        yearStart == NewDate(GetFullYear(thursday), 0, 1)
    IN  CeilDiv((thursday - yearStart) + 1, 7)

\* firstWeekStart: the Monday on or before startDate
FirstWeekStart(startDate) ==
    LET day  == GetDay(startDate)
        diff == IF day = 0 THEN -6 ELSE 1 - day
    IN  startDate + diff

\* the hour that holds 23:59:59.999 of a day (weekEnd.setHours(23, 59, 59,
\* 999)): the hour before the next local midnight
LastHour(d) == GetTime(d + 1) - 1

\* one iteration of the while loop.  weekStart, startDate and endDate are
\* local midnights and weekEnd lies 59 min 59.999 s into its hour, so
\* weekEnd > endDate when its hour is not before endDate's, and the floor
\* of a difference in days is the floor of the difference of the hours
WeekOf(weekStart, startDate, endDate) ==
    LET weekEnd      == weekStart + 6
        clampedStart == IF GetTime(weekStart) < GetTime(startDate)
                        THEN GetTime(startDate) ELSE GetTime(weekStart)
        clampedEnd   == IF LastHour(weekEnd) >= GetTime(endDate)
                        THEN GetTime(endDate) ELSE LastHour(weekEnd)
        days         == ((clampedEnd - clampedStart) \div HoursPerDay) + 1
    IN  [startDate |-> weekStart, endDate |-> weekEnd,
         weekNumber |-> getWeekNumber(weekStart), days |-> days]

\* buildWeeks(startDate, endDate): current starts at firstWeekStart and moves
\* on 7 days per iteration while current <= endDate
RECURSIVE WeeksFrom(_, _, _)
WeeksFrom(current, startDate, endDate) ==
    IF GetTime(current) <= GetTime(endDate)
    THEN <<WeekOf(current, startDate, endDate)>> \o WeeksFrom(current + 7, startDate, endDate)
    ELSE <<>>

buildWeeks(startDate, endDate) == WeeksFrom(FirstWeekStart(startDate), startDate, endDate)

\* the timelineData memo for the period shown: the period is resolved and
\* its weeks are built
ResolveWeeks ==
    /\ timelineData' = TimelineData(year, quarter, viewMode)
    /\ lastCall' = [made |-> TRUE, fn |-> "buildWeeks",
                    startDate |-> timelineData'.startDate,
                    endDate |-> timelineData'.endDate,
                    weeks |-> buildWeeks(timelineData'.startDate, timelineData'.endDate)]
    /\ UNCHANGED <<storeVars, navVars, panelVars, quarterTasks, taskBars, maxRow,
                   chartHeight, policy, dstZone>>

\* the hook is mounted with any year, quarter and view mode
InitWeeks ==
    /\ dstZone \in BOOLEAN
    /\ hookVariant = "useTasks"
    /\ tasks = <<>>
    /\ lastResult = NoResult
    /\ isLoading = FALSE
    /\ error = NoError
    /\ errors = <<>>
    /\ FreshRender
    /\ year \in NavYears
    /\ quarter \in 1..4
    /\ viewMode \in {"quarter", "year"}
    /\ bounds = NoBounds
    /\ navCalls = <<>>
    /\ lastNav = "none"
    /\ today = NewDate(EpochYear, 0, 1)
    /\ panelMode = "chart"
    /\ selectedTask = NoTask
    /\ timelineData = TimelineData(EpochYear, 1, "quarter")
    /\ quarterTasks = <<>>
    /\ taskBars = <<>>
    /\ maxRow = -1
    /\ chartHeight = MinChartHeight
    /\ policy = "none"

NextWeeks == ResolveWeeks

SpecWeeks == InitWeeks /\ [][NextWeeks]_vars

-----------------------------------------------------------------------------
(* The panel of GanttChart: panelMode, selectedTask, the toolbar, the       *)
(* buttons of the details and confirm-delete views, the forms, and the      *)
(* async handlers.  A handler calls the store, which changes its state      *)
(* before the call returns, and stops at its await; what follows the await  *)
(* runs later, after any number of other events.                            *)

MaxAwaiting == 2

\* the task list is followed up to this many tasks
MaxPanelTasks == 1

Selected(task) == [present |-> TRUE, task |-> task]

\* the tasks whose bars are on the chart
VisibleNow == QuarterTasks(renderedTasks, year, quarter, viewMode)

\* the last branch of the conditional rendering: the chart is shown when no
\* panel view is
ChartShown ==
    /\ panelMode # "add"
    /\ ~ (panelMode \in {"edit", "details", "confirm-delete"} /\ selectedTask.present)

\* what the panel's handlers leave alone
PanelFrame == UNCHANGED <<navVars, layoutVars, dstZone, lastCall>>

\* a handler that does not call the store
StoreIdle == UNCHANGED storeVars

\* the task data of the add form, a two-day task with a name, and the
\* update data of the edit form, a new name or a blank
PanelTaskInputs ==
    { taskData \in CrudTaskInputs :
        /\ taskData.name = <<"T">>
        /\ taskData.startDate = Some(FirstDay)
        /\ taskData.endDate = Some(FirstDay + 1) }

PanelUpdateInputs ==
    { updateData \in UpdateInputs :
        updateData.name # NoName /\ updateData.endDate = NoDate }

\* handleTaskClick
handleTaskClick ==
    /\ ChartShown
    /\ \E i \in 1..Len(VisibleNow) : selectedTask' = Selected(VisibleNow[i])
    /\ panelMode' = "details"
    /\ UNCHANGED awaiting
    /\ StoreIdle
    /\ PanelFrame

\* handleAddTask up to its await: onAddTask(task) is App.handleAddTask,
\* which calls addTask
handleAddTask ==
    /\ panelMode = "add"
    /\ Len(awaiting) < MaxAwaiting
    /\ \E taskData \in PanelTaskInputs, id \in TaskIds, randomColor \in CrudColors :
          /\ IF hookVariant = "useTasks"
             THEN addTask(taskData, id, randomColor)
             ELSE addTask025(taskData, id, randomColor)
          /\ issuedIds' = Issued(id)
    /\ Len(tasks') <= MaxPanelTasks
    /\ ThenRender
    /\ awaiting' = Append(awaiting, [handler |-> "handleAddTask"])
    /\ UNCHANGED <<hookVariant, panelMode, selectedTask>>
    /\ PanelFrame

\* handleAddTask after its await
AddTaskResolved ==
    /\ \E k \in 1..Len(awaiting) :
          /\ awaiting[k].handler = "handleAddTask"
          /\ awaiting' = SubSeq(awaiting, 1, k - 1) \o SubSeq(awaiting, k + 1, Len(awaiting))
    /\ panelMode' = "chart"
    /\ UNCHANGED selectedTask
    /\ StoreIdle
    /\ PanelFrame

\* the add form's onCancel
CancelAdd ==
    /\ panelMode = "add"
    /\ panelMode' = "chart"
    /\ UNCHANGED <<selectedTask, awaiting>>
    /\ StoreIdle
    /\ PanelFrame

\* details view: Muuda
ClickEdit ==
    /\ panelMode = "details" /\ selectedTask.present
    /\ panelMode' = "edit"
    /\ UNCHANGED <<selectedTask, awaiting>>
    /\ StoreIdle
    /\ PanelFrame

\* details view: Mine tagasi
ClickBack ==
    /\ panelMode = "details" /\ selectedTask.present
    /\ selectedTask' = NoTask
    /\ panelMode' = "chart"
    /\ UNCHANGED awaiting
    /\ StoreIdle
    /\ PanelFrame

\* details view: Kustuta
ClickDelete ==
    /\ panelMode = "details" /\ selectedTask.present
    /\ panelMode' = "confirm-delete"
    /\ UNCHANGED <<selectedTask, awaiting>>
    /\ StoreIdle
    /\ PanelFrame

\* the edit form's onCancel
CancelEdit ==
    /\ panelMode = "edit" /\ selectedTask.present
    /\ panelMode' = "details"
    /\ UNCHANGED <<selectedTask, awaiting>>
    /\ StoreIdle
    /\ PanelFrame

\* handleEditSubmit up to its await: onEditTask(selectedTask.id, updatedTask)
\* is App.handleEditTask, which calls updateTask and returns its result
handleEditSubmit ==
    /\ panelMode = "edit" /\ selectedTask.present
    /\ Len(awaiting) < MaxAwaiting
    /\ \E updateData \in PanelUpdateInputs :
          IF hookVariant = "useTasks"
          THEN updateTask(selectedTask.task.id, updateData)
          ELSE updateTask025(selectedTask.task.id, updateData)
    /\ ThenRender
    /\ awaiting' = Append(awaiting, [handler |-> "handleEditSubmit", result |-> lastResult'])
    /\ UNCHANGED <<hookVariant, issuedIds, panelMode, selectedTask>>
    /\ PanelFrame

\* handleEditSubmit after its await
EditSubmitResolved ==
    /\ \E k \in 1..Len(awaiting) :
          /\ awaiting[k].handler = "handleEditSubmit"
          /\ awaiting' = SubSeq(awaiting, 1, k - 1) \o SubSeq(awaiting, k + 1, Len(awaiting))
          /\ IF awaiting[k].result.success /\ "task" \in DOMAIN awaiting[k].result
             THEN /\ selectedTask' = Selected(awaiting[k].result.task)
                  /\ panelMode' = "details"
             ELSE UNCHANGED <<selectedTask, panelMode>>
    /\ StoreIdle
    /\ PanelFrame

\* confirm-delete view: Ei
ConfirmNo ==
    /\ panelMode = "confirm-delete" /\ selectedTask.present
    /\ selectedTask' = NoTask
    /\ panelMode' = "chart"
    /\ UNCHANGED awaiting
    /\ StoreIdle
    /\ PanelFrame

\* confirm-delete view: Jah.  handleDeleteConfirm up to its await:
\* onDeleteTask(selectedTask.id) is App.handleDeleteTask, which calls
\* deleteTask
handleDeleteConfirm ==
    /\ panelMode = "confirm-delete" /\ selectedTask.present
    /\ Len(awaiting) < MaxAwaiting
    /\ IF hookVariant = "useTasks"
       THEN deleteTask(selectedTask.task.id)
       ELSE deleteTask025(selectedTask.task.id)
    /\ ThenRender
    /\ awaiting' = Append(awaiting, [handler |-> "handleDeleteConfirm"])
    /\ UNCHANGED <<hookVariant, issuedIds, panelMode, selectedTask>>
    /\ PanelFrame

\* handleDeleteConfirm after its await
DeleteConfirmResolved_keepMode ==
    /\ \E k \in 1..Len(awaiting) :
          /\ awaiting[k].handler = "handleDeleteConfirm"
          /\ awaiting' = SubSeq(awaiting, 1, k - 1) \o SubSeq(awaiting, k + 1, Len(awaiting))
    /\ selectedTask' = NoTask
    /\ UNCHANGED panelMode
    /\ StoreIdle
    /\ PanelFrame

DeleteConfirmResolved ==
    /\ \E k \in 1..Len(awaiting) :
          /\ awaiting[k].handler = "handleDeleteConfirm"
          /\ awaiting' = SubSeq(awaiting, 1, k - 1) \o SubSeq(awaiting, k + 1, Len(awaiting))
    /\ selectedTask' = NoTask
    /\ panelMode' = "chart"
    /\ StoreIdle
    /\ PanelFrame

\* QuarterNavigation's buttons pressed while a panel view covers the chart;
\* navigation from the chart itself is followed in the navigation
\* specification
PanelPrevious == panelMode # "chart" /\ handlePrevious

PanelNext == panelMode # "chart" /\ handleNext

PanelToday == panelMode # "chart" /\ handleToday

\* the chart is mounted with an empty store on the first quarter of
\* EpochYear, a day of the third quarter of the following year being today
InitPanel ==
    /\ dstZone = FALSE
    /\ hookVariant = "useTasks"
    /\ tasks = <<>>
    /\ lastResult = NoResult
    /\ isLoading = FALSE
    /\ error = NoError
    /\ errors = <<>>
    /\ FreshRender
    /\ year = EpochYear
    /\ quarter = 1
    /\ viewMode = "quarter"
    /\ bounds = NoBounds
    /\ navCalls = <<>>
    /\ lastNav = "none"
    /\ today = NewDate(EpochYear + 1, 6, 1)
    /\ panelMode = "chart"
    /\ selectedTask = NoTask
    /\ timelineData = TimelineData(year, quarter, viewMode)
    /\ quarterTasks = <<>>
    /\ taskBars = <<>>
    /\ maxRow = -1
    /\ chartHeight = MinChartHeight
    /\ policy = "none"

NextPanel ==
    \/ handleTaskClick
    \/ ToolbarToggle
    \/ handleAddTask
    \/ AddTaskResolved
    \/ CancelAdd
    \/ ClickEdit
    \/ ClickBack
    \/ ClickDelete
    \/ CancelEdit
    \/ handleEditSubmit
    \/ EditSubmitResolved
    \/ ConfirmNo
    \/ handleDeleteConfirm
    \/ DeleteConfirmResolved
    \/ PanelPrevious
    \/ PanelNext
    \/ PanelToday

SpecPanel == InitPanel /\ [][NextPanel]_vars

-----------------------------------------------------------------------------
(* Properties of the task store specification *)

\* what validation accepts: a name with a character that is not a blank,
\* both dates, and a start that is not after the end
PassesValidation(taskData) ==
    /\ \E i \in 1..Len(taskData.name) : taskData.name[i] # " "
    /\ taskData.startDate # NoDate
    /\ taskData.endDate # NoDate
    /\ taskData.startDate[1] <= taskData.endDate[1]

\* a step of addTask that is not a stuttering step
AddTaskStep ==
    /\ lastResult'.settled
    /\ lastResult'.op = "addTask"
    /\ (lastResult' # lastResult \/ tasks' # tasks)

\* C10: addTask changes the task list only when validation of its input
\* succeeds: then exactly one new task is appended at the end and every
\* existing task keeps its value and position; when validation fails the
\* list is unchanged and the call resolves to a failure result
C10_AddTask ==
    [][ AddTaskStep =>
          IF PassesValidation(lastResult'.input)
          THEN /\ Len(tasks') = Len(tasks) + 1
               /\ \A i \in 1..Len(tasks) : tasks'[i] = tasks[i]
               /\ tasks'[Len(tasks')].startDate = lastResult'.input.startDate[1]
               /\ tasks'[Len(tasks')].endDate = lastResult'.input.endDate[1]
               /\ lastResult'.success
               /\ lastResult'.task = tasks'[Len(tasks')]
          ELSE /\ tasks' = tasks
               /\ ~ lastResult'.success ]_vars

\* a call rejected for its date order has left a list with a task in it
\* as it was
C10_Witness ==
    /\ Len(tasks) >= 1
    /\ lastResult.settled
    /\ lastResult.op = "addTask"
    /\ ~ lastResult.success
    /\ lastResult.input.startDate # NoDate
    /\ lastResult.input.endDate # NoDate
    /\ lastResult.input.startDate[1] > lastResult.input.endDate[1]

-----------------------------------------------------------------------------
(* Properties of the task store under create, update and delete *)

\* a result that is a structured not-found failure
IsNotFound(result) ==
    /\ ~ result.success
    /\ \/ /\ "error" \in DOMAIN result
          /\ result.error \in { "TASK_NOT_FOUND", "Task not found" }
       \/ /\ "errors" \in DOMAIN result
          /\ "general" \in DOMAIN result.errors
          /\ result.errors.general = "TASK_NOT_FOUND"

\* the step is a call of updateTask or deleteTask
UpdateOrDeleteStep ==
    /\ lastResult'.settled
    /\ lastResult'.op \in { "updateTask", "deleteTask" }

\* C11: updateTask or deleteTask called with an identifier that is not in the
\* task list resolves to a not-found failure, with no exception caught
\* (error stays unset), and leaves the task list unchanged
C11_NotFound ==
    [][ (UpdateOrDeleteStep /\ ~ TaskExists(tasks, lastResult'.taskId)) =>
          /\ IsNotFound(lastResult')
          /\ error' = NoError
          /\ tasks' = tasks ]_vars

\* an update that named an identifier no task has was answered with a
\* not-found failure while the list held a task
C11_Witness ==
    /\ Len(tasks) >= 1
    /\ lastResult.settled
    /\ lastResult.op = "updateTask"
    /\ ~ TaskExists(tasks, lastResult.taskId)
    /\ IsNotFound(lastResult)

\* the positions of the tasks that do not have the identifier
OtherPositions(ts, taskId) == { i \in 1..Len(ts) : ts[i].id # taskId }

\* after is before without the tasks that have the identifier, the others in
\* their order
RemovedOnly(before, after, taskId) ==
    /\ Len(after) = Cardinality(OtherPositions(before, taskId))
    /\ \A j \in 1..Len(after) :
          \E i \in OtherPositions(before, taskId) :
              /\ Cardinality({ k \in OtherPositions(before, taskId) : k <= i }) = j
              /\ after[j] = before[i]

\* after is before with the tasks that have the identifier replaced, at their
\* positions, by one task that has the same identifier
ReplacedOnly(before, after, taskId, replacement) ==
    /\ Len(after) = Len(before)
    /\ replacement.id = taskId
    /\ \A i \in 1..Len(before) :
          after[i] = IF before[i].id = taskId THEN replacement ELSE before[i]

\* the replacement has the values the update gave and, for what it did not
\* give, the values of the task it replaces
CarriesUpdate(old, replacement, updateData) ==
    /\ replacement.startDate =
          IF updateData.startDate = NoDate THEN old.startDate ELSE updateData.startDate[1]
    /\ replacement.endDate =
          IF updateData.endDate = NoDate THEN old.endDate ELSE updateData.endDate[1]
    /\ replacement.color =
          IF updateData.color = NoColor THEN old.color ELSE updateData.color
    /\ IF updateData.name = NoName THEN replacement.name = old.name
       ELSE replacement.name \in { updateData.name[1], Trim(updateData.name[1]) }

\* C12: a successful updateTask replaces the task that has the identifier, at
\* its position and with its identifier, by the updated task; a successful
\* deleteTask removes the task that has the identifier; every other task
\* and the order of the tasks that remain are unchanged
C12_UpdateDeleteFrame ==
    [][ (lastResult'.settled /\ lastResult'.success) =>
          /\ lastResult'.op = "updateTask" =>
                /\ ReplacedOnly(tasks, tasks', lastResult'.taskId, lastResult'.task)
                /\ \E i \in 1..Len(tasks) :
                      /\ tasks[i].id = lastResult'.taskId
                      /\ CarriesUpdate(tasks[i], lastResult'.task, lastResult'.input)
          /\ lastResult'.op = "deleteTask" =>
                /\ RemovedOnly(tasks, tasks', lastResult'.taskId)
                /\ TaskExists(tasks, lastResult'.taskId) ]_vars

\* the first of two tasks with different identifiers has been renamed by an
\* update and the second is still there
C12_Witness ==
    /\ Len(tasks) = 2
    /\ lastResult.settled
    /\ lastResult.op = "updateTask"
    /\ lastResult.success
    /\ tasks[1].id = lastResult.taskId
    /\ tasks[2].id # lastResult.taskId
    /\ tasks[1].name = <<"U">>
    /\ tasks[2].name = <<"T">>

\* C13: every task the store holds starts before it ends, and an addTask
\* whose input starts on or after its end is rejected
C13_StrictDateOrder ==
    /\ \A i \in 1..Len(tasks) : GetTime(tasks[i].startDate) < GetTime(tasks[i].endDate)
    /\ (/\ lastResult.settled
        /\ lastResult.op = "addTask"
        /\ lastResult.input.startDate # NoDate
        /\ lastResult.input.endDate # NoDate
        /\ GetTime(lastResult.input.startDate[1]) >= GetTime(lastResult.input.endDate[1]))
       => ~ lastResult.success

\* no two tasks of the list have the same identifier
UniqueIds(ts) == \A i, j \in 1..Len(ts) : ts[i].id = ts[j].id => i = j

\* C14: after every call no two tasks share an identifier; an update leaves
\* every task its identifier; a created task gets an identifier that no
\* task was given before
C14_UniqueStableIds ==
    [][ /\ UniqueIds(tasks')
        /\ (lastResult'.settled /\ lastResult'.op = "updateTask") =>
              /\ Len(tasks') = Len(tasks)
              /\ \A i \in 1..Len(tasks) : tasks'[i].id = tasks[i].id
        /\ (lastResult'.settled /\ lastResult'.op = "addTask" /\ lastResult'.success) =>
              lastResult'.task.id \notin issuedIds ]_vars

\* the last call was an addTask or updateTask that validation rejected
RejectedByValidation ==
    /\ lastResult.settled
    /\ lastResult.op \in { "addTask", "updateTask" }
    /\ ~ lastResult.success
    /\ ~ IsNotFound(lastResult)

\* C15: when validation rejects the input of addTask or updateTask, the
\* failure result carries the field-to-message mapping of the errors that
\* validation found for that input (errors holds them once the call has
\* resolved), so a rejected blank name comes with a name error
C15_ErrorsOfThisInput ==
    RejectedByValidation =>
        /\ "errors" \in DOMAIN lastResult
        /\ lastResult.errors = getFormErrors(errors)
        /\ (lastResult.op = "addTask" /\ Trim(lastResult.input.name) = <<>>) =>
              "name" \in DOMAIN lastResult.errors

-----------------------------------------------------------------------------
(* Properties of the task store with overlapping calls *)

\* the list a call leaves when it is made on the list ts after every call
\* before it has resolved and rendered; call is the record of the call
AppliedInTurn(ts, call) ==
    CASE call.op = "addTask" ->
            IF call.success THEN Append(ts, call.task) ELSE ts
      [] call.op = "deleteTask" ->
            SelectSeq(ts, LAMBDA task : task.id # call.taskId)
      [] call.op = "updateTask" ->
            IF ~ \E i \in 1..Len(ts) : ts[i].id = call.taskId
            THEN ts
            ELSE LET first == SetMin({ i \in 1..Len(ts) : ts[i].id = call.taskId })
                     merged == Merge(ts[first], call.input)
                     stored == IF hookVariant = "useTasks"
                               THEN [merged EXCEPT !.name = Trim(@)]
                               ELSE merged
                 IN  IF PassesValidation(AsPartial(merged))
                     THEN [i \in 1..Len(ts) |->
                              IF ts[i].id = call.taskId THEN stored ELSE ts[i]]
                     ELSE ts

\* a second call is made while the first call since the last render is
\* still pending
SecondCallStep == pendingOps = 1 /\ pendingOps' = 2

\* the second call names a task that the first call created or updated
NamesTaskOfFirst ==
    /\ lastResult'.op \in { "updateTask", "deleteTask" }
    /\ lastResult.op \in { "addTask", "updateTask" }
    /\ lastResult.success
    /\ lastResult.task.id = lastResult'.taskId

\* the tasks of a list that do not have the identifier a call names
Others(ts, call) ==
    IF call.op = "addTask" THEN ts
    ELSE SelectSeq(ts, LAMBDA task : task.id # call.taskId)

-----------------------------------------------------------------------------
(* Properties of the date text conversions *)

\* C16: a valid date text of the form DD.MM.YYYY, parsed and formatted again,
\* is the same text; a date, formatted and parsed again, is the same date
C16_RoundTrip ==
    /\ (lastCall.made /\ lastCall.fn = "parseEstonianDate"
            /\ validateEstonianDate(lastCall.text)) =>
          lastCall.back = Some(lastCall.text)
    /\ (lastCall.made /\ lastCall.fn = "formatDate") =>
          lastCall.back = lastCall.date


-----------------------------------------------------------------------------
(* Properties of the weeks specification *)

WeeksBuilt == lastCall.made /\ lastCall.fn = "buildWeeks"

\* the days of a week that lie in the period
DaysInside(week, startDate, endDate) ==
    { d \in week.startDate..(week.startDate + 6) : startDate <= d /\ d <= endDate }

RECURSIVE SumOfDays(_, _)
SumOfDays(weeks, k) ==
    IF k > Len(weeks) THEN 0 ELSE weeks[k].days + SumOfDays(weeks, k + 1)

\* the weeks begin with the Monday on or before the period start, follow 7
\* days apart and end with the last Monday not after the period end
WeekStartsRight(weeks, startDate, endDate) ==
    /\ Len(weeks) >= 1
    /\ GetDay(weeks[1].startDate) = 1
    /\ weeks[1].startDate <= startDate
    /\ startDate - weeks[1].startDate < 7
    /\ \A k \in 1..(Len(weeks) - 1) : weeks[k + 1].startDate = weeks[k].startDate + 7
    /\ weeks[Len(weeks)].startDate <= endDate
    /\ weeks[Len(weeks)].startDate + 7 > endDate

\* each day count is the number of the week's days inside the period, in
\* 1..7, and the counts add up to the period's day count
WeekDaysRight(weeks, startDate, endDate) ==
    /\ \A k \in 1..Len(weeks) :
          /\ weeks[k].days = Cardinality(DaysInside(weeks[k], startDate, endDate))
          /\ weeks[k].days \in 1..7
    /\ SumOfDays(weeks, 1) = endDate - startDate + 1

\* C25: the weeks of a period start with the week whose Monday is on or
\* before the period start, continue 7 days apart and end with the last
\* week whose Monday is not after the period end; each day count is the
\* number of the week's days inside the period, in 1..7, and the counts add
\* up to the period's day count
C25_Weeks ==
    WeeksBuilt =>
        /\ WeekStartsRight(lastCall.weeks, lastCall.startDate, lastCall.endDate)
        /\ WeekDaysRight(lastCall.weeks, lastCall.startDate, lastCall.endDate)

\* the Mondays part of C25 alone
C25_WeekStarts ==
    WeeksBuilt => WeekStartsRight(lastCall.weeks, lastCall.startDate, lastCall.endDate)

\* C25 in a zone without daylight saving time
C25_Weeks_noClockChange ==
    (WeeksBuilt /\ ~ dstZone) =>
        /\ WeekStartsRight(lastCall.weeks, lastCall.startDate, lastCall.endDate)
        /\ WeekDaysRight(lastCall.weeks, lastCall.startDate, lastCall.endDate)


-----------------------------------------------------------------------------
(* Properties of the panel specification *)

\* C29: whatever the user does and whenever the async handlers resume, the
\* panel is in mode details, edit or confirm-delete only while a task is
\* selected, and while the panel is not in chart mode no step, of a
\* navigation handler or of any other, changes the year or the quarter
C29_PanelConsistent ==
    /\ [](panelMode \in {"details", "edit", "confirm-delete"} => selectedTask.present)
    /\ [][panelMode # "chart" => (year' = year /\ quarter' = quarter)]_vars

\* an edit and then a delete of the selected task were stopped at their
\* await; the task is gone from the store, the edit has resumed and opened
\* the details view on its result, and the delete is still to resume
C29_Witness ==
    /\ tasks = <<>>
    /\ Len(awaiting) = 1
    /\ awaiting[1].handler = "handleDeleteConfirm"
    /\ panelMode = "details"
    /\ selectedTask.present
    /\ selectedTask.task.name = <<"U">>

\* a navigation handler has run while the panel was not in chart mode and
\* has left the period alone
C29_Witness_disabled ==
    /\ panelMode = "add"
    /\ lastNav = "next"
    /\ navCalls = <<>>
    /\ year = EpochYear
    /\ quarter = 1


-----------------------------------------------------------------------------
(* Properties of updates and deletes that overlap *)

\* an updateTask or deleteTask is called
ChangeCalled ==
    /\ pendingOps' = pendingOps + 1
    /\ lastResult'.op \in { "updateTask", "deleteTask" }

InList(ts, taskId) == \E i \in 1..Len(ts) : ts[i].id = taskId

\* C30: updateTask and deleteTask resolve with success = true only if the
\* task they name is in the task list when the change is applied, so of a
\* delete and an update, or two deletes, of one task made before the hook
\* renders, at most one reports success
C30_SuccessOnlyIfPresent ==
    [][ (ChangeCalled /\ lastResult'.success) => InList(tasks, lastResult'.taskId) ]_vars

\* what the code does give: success is reported only for a task of the last
\* render, and a task that is not in the list is not put back
C30_SuccessOnlyIfRendered ==
    [][ (ChangeCalled /\ lastResult'.success) => InList(renderedTasks, lastResult'.taskId) ]_vars

C30_NotReinserted ==
    [][ (ChangeCalled /\ ~ InList(tasks, lastResult'.taskId))
          => ~ InList(tasks', lastResult'.taskId) ]_vars

\* a task of the last render has been deleted and the call after it, made
\* before the hook renders, reports success
C30_Witness_reportedTwice ==
    /\ pendingOps = 2
    /\ lastResult.settled
    /\ lastResult.op \in { "updateTask", "deleteTask" }
    /\ lastResult.success
    /\ InList(renderedTasks, lastResult.taskId)
    /\ ~ InList(tasks, lastResult.taskId)

=============================================================================
